---------------------------- MODULE Spec2Model ----------------------------
(***************************************************************************)
(* The trivia board game of src/src/app/game/page.tsx (GameContent) with   *)
(* its hooks useTwists and useQuestions and the twist handlers of          *)
(* lib/twistHandlers (src/unnamed/part_008).                               *)
(*                                                                         *)
(* The React state of GameContent is one TLA+ variable per useState/useRef *)
(* cell.  A handler is an operator h(c, s, ...) from the closure record c  *)
(* (the state of the render that created the callback) and the current     *)
(* state record s to the next state record: values the handler reads from  *)
(* its closure come from c, functional updates (setX(prev => ...)) and     *)
(* refs act on s.  A callback run from the current render has c = s; a     *)
(* callback kept in a setTimeout carries the c of the render that          *)
(* scheduled it.  Time is counted in units of 100 ms.                      *)
(***************************************************************************)
EXTENDS Integers, Sequences, FiniteSets, TLC

(***************************************************************************)
(* Board, stars, wheel and deck constants                                  *)
(***************************************************************************)
TOTAL_STEPS == 25
TOTAL_STARS == 10
GATE_POSITIONS == <<0, 5, 10, 15, 20>>
BOARD_GATE_POSITIONS == {0, 5, 10, 15, 20}
STAR_POINT_VALUES == <<0, 50, 50, 100, 100, 150, 150, 200, 200, 250>>
\* The second highest value of a star
SecondStarValue == STAR_POINT_VALUES[Len(STAR_POINT_VALUES) - 1]
UPGRADED_STAR_VALUE == 250
DifficultyLevels == 1..5
WHEEL_SEGMENTS == <<1, 0, 2, 3, 0, 4, 5>>   \* 0 stands for the 'twist' face
TwistFace == 0

NoPlayer == -1
NoStar == -1
NoDifficulty == 0
NoCategory == 0

\* Timer delays of the source, in units of 100 ms
TwistShowDelay == 10
QuestionShowDelay == 15
CountdownStartDelay == 3
CountdownTickDelay == 10
MoveEffectDelay == 8
MoveNextDelay == 5
StarRevealDuration == 40
NextTurnDelay == 10
BonusFeedbackDelay == 15
StarPeekDuration == 30
DigitalConfirmDelay == 25
PopupConfirmDelay == 30
AutoSpinDelay == 15
SpinDuration == 40
DigitalAnswerBase == 10
DigitalAnswerRange == 20
DigitalStarBase == 10
DigitalStarRange == 10
DigitalBonusBase == 10
DigitalBonusRange == 10
DigitalChoiceBase == 15
DigitalChoiceRange == 10

(***************************************************************************)
(* TWIST_CARDS: the 30 cards of src/src/data/twists.ts, in file order.     *)
(* v = 0 stands for an absent effectValue.                                 *)
(***************************************************************************)
Card(t, v, tp, ch, pos) ==
  [effectType |-> t, effectValue |-> v, targetPlayer |-> tp,
   requiresChoice |-> ch, isPositive |-> pos]

TWIST_CARDS ==
  << Card("move_back_gate",    0,   "self",   FALSE, FALSE),
     Card("others_back_gate",  0,   "others", FALSE, TRUE),
     Card("teleport_gate",     0,   "self",   TRUE,  TRUE),
     Card("random_teleport",   0,   "self",   FALSE, FALSE),
     Card("swap_positions",    0,   "choose", TRUE,  TRUE),
     Card("everyone_moves",    2,   "all",    FALSE, TRUE),
     Card("free_star",         0,   "self",   TRUE,  TRUE),
     Card("steal_star",        0,   "choose", TRUE,  TRUE),
     Card("upgrade_zero_star", 0,   "self",   FALSE, TRUE),
     Card("star_peek",         0,   "self",   TRUE,  TRUE),
     Card("instant_points",    50,  "self",   FALSE, TRUE),
     Card("instant_points",    100, "self",   FALSE, TRUE),
     Card("points_swap",       0,   "choose", TRUE,  TRUE),
     Card("double_next",       0,   "self",   FALSE, TRUE),
     Card("bonus_question",    5,   "self",   FALSE, TRUE),
     Card("difficulty_choice", 0,   "self",   TRUE,  TRUE),
     Card("category_master",   3,   "self",   TRUE,  TRUE),
     Card("extra_turn",        0,   "self",   FALSE, TRUE),
     Card("freeze_player",     0,   "choose", TRUE,  TRUE),
     Card("reverse_order",     3,   "all",    FALSE, FALSE),
     Card("shield",            2,   "self",   FALSE, TRUE),
     Card("move_back_gate",    3,   "self",   FALSE, FALSE),
     Card("teleport_gate",     0,   "self",   TRUE,  TRUE),
     Card("free_star",         0,   "self",   TRUE,  TRUE),
     Card("steal_star",        0,   "choose", TRUE,  TRUE),
     Card("instant_points",    150, "self",   FALSE, TRUE),
     Card("double_next",       0,   "self",   FALSE, TRUE),
     Card("bonus_question",    5,   "self",   FALSE, TRUE),
     Card("category_master",   3,   "self",   TRUE,  TRUE),
     Card("extra_turn",        0,   "self",   FALSE, TRUE) >>

CardIds == 1..Len(TWIST_CARDS)

\* activeTwist: a card (with its id), or NoTwist for null
TwistOf(id) ==
  [id |-> id,
   effectType |-> TWIST_CARDS[id].effectType,
   effectValue |-> TWIST_CARDS[id].effectValue,
   targetPlayer |-> TWIST_CARDS[id].targetPlayer,
   requiresChoice |-> TWIST_CARDS[id].requiresChoice,
   isPositive |-> TWIST_CARDS[id].isPositive]

NoTwist ==
  [id |-> 0, effectType |-> "none", effectValue |-> 0, targetPlayer |-> "none",
   requiresChoice |-> FALSE, isPositive |-> FALSE]

(***************************************************************************)
(* Sequence helpers                                                        *)
(***************************************************************************)
RECURSIVE SumSeq(_)
SumSeq(q) == IF q = <<>> THEN 0 ELSE Head(q) + SumSeq(Tail(q))

Range(q) == {q[i] : i \in DOMAIN q}

Min(S) == CHOOSE x \in S : \A y \in S : x <= y
Max(S) == CHOOSE x \in S : \A y \in S : x >= y

(***************************************************************************)
(* Board geometry                                                          *)
(***************************************************************************)
\* getGatesPassed: the gates among startPos+1 .. startPos+steps, in order
RECURSIVE GatesFrom(_, _, _)
GatesFrom(startPos, i, steps) ==
  IF i > steps THEN <<>>
  ELSE LET pos == (startPos + i) % TOTAL_STEPS
       IN  (IF pos \in Range(GATE_POSITIONS) THEN <<pos>> ELSE <<>>)
             \o GatesFrom(startPos, i + 1, steps)

\* A variant of getGatesPassed that leaves the destination out
getGatesBeforeDestination(startPos, steps) == GatesFrom(startPos, 1, steps - 1)

getGatesPassed(startPos, steps) == GatesFrom(startPos, 1, steps)

newPositionAfter(startPos, steps) == (startPos + steps) % TOTAL_STEPS

\* A variant of findPreviousGate that goes five squares back without wrapping
fiveSquaresBack(currentPosition) == currentPosition - 5

\* A variant of findPreviousGate that keeps a player on the gate it stands on
findGateAtOrBefore(currentPosition) ==
  LET previousGates == {g \in BOARD_GATE_POSITIONS : g <= currentPosition}
  IN  IF previousGates # {} THEN Max(previousGates)
      ELSE GATE_POSITIONS[Len(GATE_POSITIONS)]

findPreviousGate(currentPosition) ==
  LET previousGates == {g \in BOARD_GATE_POSITIONS : g < currentPosition}
  IN  IF previousGates # {} THEN Max(previousGates)
      ELSE GATE_POSITIONS[Len(GATE_POSITIONS)]

(***************************************************************************)
(* State.  players[i] is the player with id i (1..Len(players));           *)
(* currentTurnIndex is 0-based as in the source.  stars[k] is the star     *)
(* with id k-1.  A modifier is [playerId, type, turnsRemaining, value].    *)
(* questions is the generated pool: questions[q] = [difficulty, category]; *)
(* currentQuestion is a pool index, NoQuestion for null.                   *)
(***************************************************************************)
VARIABLES
  players, stars, currentTurnIndex, gamePhase,
  playerAnswers, activeHumanIndex, roundSteps,
  pendingMovements, currentMovingPlayerIndex, gatesPassedQueue,
  selectingStarPlayer, revealingStar,
  questions, usedQuestionIds, currentQuestion,
  usedTwistIds, activeTwist, modifiers,
  showTwistChoice, chosenDifficulty, extraTurnPending,
  playOrderReversed, reverseTurnsRemaining, bonusQuestionSteps, peekedStarId,
  isSpinning, selectedSegment, hasAutoSpun, count,
  timers, startMovementClosure, turnsStarted, ghost

vars ==
  << players, stars, currentTurnIndex, gamePhase,
     playerAnswers, activeHumanIndex, roundSteps,
     pendingMovements, currentMovingPlayerIndex, gatesPassedQueue,
     selectingStarPlayer, revealingStar,
     questions, usedQuestionIds, currentQuestion,
     usedTwistIds, activeTwist, modifiers,
     showTwistChoice, chosenDifficulty, extraTurnPending,
     playOrderReversed, reverseTurnsRemaining, bonusQuestionSteps, peekedStarId,
     isSpinning, selectedSegment, hasAutoSpun, count,
     timers, startMovementClosure, turnsStarted, ghost >>

NoQuestion == 0

\* History, for stating properties: the calls of tickModifiers and of
\* handleNextTurn, the runs of handleTwistConfirm that applied the effect of
\* a card and the freeze_player choice since the wheel was last spun, whether
\* a question selection has returned null since then, the players frozen
\* and not yet skipped, and the player whose queued move has crossed a gate
\* and whose star selection has not ended, the questions that
\* selectQuestionByDifficulty has returned and whether it has returned one of
\* them again, the players who have drawn double_next and have not given
\* a correct answer in a counted round since, the category choices of
\* category_master with the number of questions of the chooser's own turns
\* still to come, the forced category and the difficulty of the latest
\* question request with the player whose turn it was, the number of turn
\* advances that reverse_order has still to reverse, the player whose
\* difficulty_choice set the chosen difficulty, the board positions at
\* the time the movement queue was built, and the latest queued move with
\* the mover's score and star count and the number of unearned stars before
\* it, and the iterations of the frozen-skip loop in the latest turn advance
NoFreeze == [by |-> NoPlayer, target |-> NoPlayer]
NoMove == [player |-> NoPlayer, from |-> 0, steps |-> 0, unearned |-> 0,
           collected |-> 0, score |-> 0]
NoGhost ==
  [ticks |-> 0, advances |-> 0, confirms |-> 0, freeze |-> NoFreeze,
   noQuestion |-> FALSE, pendingFreeze |-> {}, awaitingStar |-> NoPlayer,
   returned |-> {}, repeated |-> FALSE, pendingDouble |-> {},
   masterDue |-> {},
   asked |-> [by |-> NoPlayer, category |-> NoCategory, difficulty |-> NoDifficulty],
   reverseDue |-> 0, overrideBy |-> NoPlayer, origin |-> <<>>, move |-> NoMove,
   skips |-> 0]
NoRevealingStar == [id |-> NoStar, pointValue |-> 0]

\* Bounds of the model: the number of wheel spins of a run, and the
\* squares random_teleport can draw
MaxTurns == 4
TeleportPositions == {3, 20}
MaxStarChoices == 2
\* A player clicks again only while fewer than MaxTimers timers are pending
MaxTimers == 3

\* The state as one record; touched collects the array/object cells a
\* handler has set (React re-renders on a new reference even if equal).
Cur ==
  [players |-> players, stars |-> stars, currentTurnIndex |-> currentTurnIndex,
   gamePhase |-> gamePhase, playerAnswers |-> playerAnswers,
   activeHumanIndex |-> activeHumanIndex, roundSteps |-> roundSteps,
   pendingMovements |-> pendingMovements,
   currentMovingPlayerIndex |-> currentMovingPlayerIndex,
   gatesPassedQueue |-> gatesPassedQueue,
   selectingStarPlayer |-> selectingStarPlayer, revealingStar |-> revealingStar,
   questions |-> questions, usedQuestionIds |-> usedQuestionIds,
   currentQuestion |-> currentQuestion,
   usedTwistIds |-> usedTwistIds, activeTwist |-> activeTwist,
   modifiers |-> modifiers, showTwistChoice |-> showTwistChoice,
   chosenDifficulty |-> chosenDifficulty, extraTurnPending |-> extraTurnPending,
   playOrderReversed |-> playOrderReversed,
   reverseTurnsRemaining |-> reverseTurnsRemaining,
   bonusQuestionSteps |-> bonusQuestionSteps, peekedStarId |-> peekedStarId,
   isSpinning |-> isSpinning, selectedSegment |-> selectedSegment,
   hasAutoSpun |-> hasAutoSpun, count |-> count,
   timers |-> timers, startMovementClosure |-> startMovementClosure,
   turnsStarted |-> turnsStarted, ghost |-> ghost,
   touched |-> {}]

\* The values a callback of a render reads from its closure
Closure(s) ==
  [players |-> s.players, stars |-> s.stars,
   currentTurnIndex |-> s.currentTurnIndex, modifiers |-> s.modifiers,
   extraTurnPending |-> s.extraTurnPending,
   playOrderReversed |-> s.playOrderReversed,
   reverseTurnsRemaining |-> s.reverseTurnsRemaining,
   chosenDifficulty |-> s.chosenDifficulty, activeTwist |-> s.activeTwist]

NoClosure ==
  [players |-> <<>>, stars |-> <<>>, currentTurnIndex |-> 0, modifiers |-> <<>>,
   extraTurnPending |-> FALSE, playOrderReversed |-> FALSE,
   reverseTurnsRemaining |-> 0, chosenDifficulty |-> NoDifficulty,
   activeTwist |-> NoTwist]

\* setX(v) for an array/object cell, and for a primitive cell
SetRef(s, f, v) == [s EXCEPT ![f] = v, !.touched = @ \cup {f}]

\* setTimeout(cb, delay) outside an effect: never cleared
SetTimeout(s, kind, delay, c) ==
  [s EXCEPT !.timers = Append(@, [kind |-> kind, due |-> delay, clo |-> c])]

PlayerIds(s) == 1..Len(s.players)
currentTurnPlayer(s) == s.currentTurnIndex + 1
HasCurrentTurnPlayer(s) == s.currentTurnIndex + 1 \in PlayerIds(s)
humanPlayers(s) == SelectSeq([i \in PlayerIds(s) |-> i],
                             LAMBDA i : s.players[i].type = "human")
digitalPlayers(s) == SelectSeq([i \in PlayerIds(s) |-> i],
                               LAMBDA i : s.players[i].type = "digital")
availableStars(st) == {k \in DOMAIN st : ~st[k].isEarned}
isGameOver(s) == availableStars(s.stars) = {}

\* A variant of pickableStars that offers the earned stars as well
pickableAmongAll(st) ==
  {k \in DOMAIN st : Cardinality({h \in DOMAIN st : h < k}) < MaxStarChoices}

\* The stars a click or Math.random picks: the MaxStarChoices first unearned
pickableStars(st) ==
  {k \in availableStars(st) :
     Cardinality({h \in availableStars(st) : h < k}) < MaxStarChoices}

(***************************************************************************)
(* useTwists: the modifier store and the deck                              *)
(***************************************************************************)
\* A variant of addModifier that appends without replacing
addModifierAppend(s, modifier) ==
  SetRef(s, "modifiers", s.modifiers \o <<modifier>>)

addModifier(s, modifier) ==
  SetRef(s, "modifiers",
         SelectSeq(s.modifiers,
                   LAMBDA m : ~(m.playerId = modifier.playerId
                                /\ m.type = modifier.type))
           \o <<modifier>>)

removeModifier(s, playerId, type) ==
  SetRef(s, "modifiers",
         SelectSeq(s.modifiers,
                   LAMBDA m : ~(m.playerId = playerId /\ m.type = type)))

tickModifiers(s) ==
  SetRef(s, "modifiers",
         SelectSeq([i \in DOMAIN s.modifiers |->
                      [s.modifiers[i] EXCEPT !.turnsRemaining = @ - 1]],
                   LAMBDA m : m.turnsRemaining > 0))

\* A variant of availableTwists that forgets the used cards
availableTwistsUnfiltered(s) == CardIds

\* drawTwist: the cards Math.random can return; an exhausted deck is
\* reshuffled (usedTwistIds cleared) and its first card returned
availableTwists(s) == CardIds \ s.usedTwistIds
drawTwistChoices(s) ==
  IF availableTwists(s) = {} THEN CardIds ELSE availableTwists(s)
drawTwist(s) ==
  IF availableTwists(s) = {} THEN [s EXCEPT !.usedTwistIds = {}] ELSE s
markTwistUsed(s, id) == [s EXCEPT !.usedTwistIds = @ \cup {id}]

isPlayerFrozen(playerId, mods) ==
  \E i \in DOMAIN mods :
    mods[i].playerId = playerId /\ mods[i].type = "frozen"
      /\ mods[i].turnsRemaining > 0

getStepsMultiplier(playerId, mods) ==
  LET found == SelectSeq(mods, LAMBDA m : m.playerId = playerId
                           /\ m.type = "double_next" /\ m.turnsRemaining > 0)
  IN  IF found = <<>> THEN 1
      ELSE IF found[1].value # 0 THEN found[1].value ELSE 2

getForcedCategory(playerId, mods) ==
  LET found == SelectSeq(mods, LAMBDA m : m.playerId = playerId
                           /\ m.type = "category_master" /\ m.turnsRemaining > 0)
  IN  IF found = <<>> THEN NoCategory ELSE found[1].value

(***************************************************************************)
(* useQuestions                                                            *)
(***************************************************************************)
\* A variant of UnusedOf that forgets the used questions
UnfilteredOf(s, difficulty, forcedCategory) ==
  {q \in DOMAIN s.questions :
     /\ s.questions[q].difficulty = difficulty
     /\ (forcedCategory = NoCategory \/ s.questions[q].category = forcedCategory)}

\* The unused questions of one difficulty, within the forced category if any
UnusedOf(s, difficulty, forcedCategory) ==
  {q \in DOMAIN s.questions :
     /\ s.questions[q].difficulty = difficulty
     /\ q \notin s.usedQuestionIds
     /\ (forcedCategory = NoCategory \/ s.questions[q].category = forcedCategory)}

\* A variant of nearbyDifficulties that tries the harder neighbour first
nearbyDifficultiesUpFirst(difficulty) ==
  SelectSeq(<<difficulty + 1, difficulty - 1, difficulty + 2, difficulty - 2>>,
            LAMBDA d : d >= 1 /\ d <= 5)

nearbyDifficulties(difficulty) ==
  SelectSeq(<<difficulty - 1, difficulty + 1, difficulty - 2, difficulty + 2>>,
            LAMBDA d : d >= 1 /\ d <= 5)

RECURSIVE FirstNearby(_, _, _)
FirstNearby(s, ds, forcedCategory) ==
  IF ds = <<>> THEN {}
  ELSE IF UnusedOf(s, Head(ds), forcedCategory) # {}
       THEN UnusedOf(s, Head(ds), forcedCategory)
       ELSE FirstNearby(s, Tail(ds), forcedCategory)

\* The questions selectQuestionByDifficulty can pick ({}: it returns null)
selectableQuestions(s, difficulty, forcedCategory) ==
  LET availableQuestions == UnusedOf(s, difficulty, forcedCategory)
      fallback == FirstNearby(s, nearbyDifficulties(difficulty), forcedCategory)
      anyInCategory ==
        {q \in DOMAIN s.questions :
           /\ q \notin s.usedQuestionIds
           /\ (forcedCategory = NoCategory
                 \/ s.questions[q].category = forcedCategory)}
      anyUnused ==
        IF anyInCategory = {} /\ forcedCategory # NoCategory
        THEN DOMAIN s.questions \ s.usedQuestionIds
        ELSE anyInCategory
  IN  IF availableQuestions # {} THEN availableQuestions
      ELSE IF fallback # {} THEN fallback
      ELSE anyUnused

\* pick is the question Math.random selects, NoQuestion when none is left
selectQuestionByDifficulty(s, pick) ==
  IF pick = NoQuestion THEN [s EXCEPT !.ghost.noQuestion = TRUE]
  ELSE [s EXCEPT !.usedQuestionIds = @ \cup {pick}, !.currentQuestion = pick,
                 !.ghost.returned = @ \cup {pick},
                 !.ghost.repeated = @ \/ pick \in s.ghost.returned]

completeCurrentQuestion(s) == [s EXCEPT !.currentQuestion = NoQuestion]

(***************************************************************************)
(* handleNextTurn (page.tsx 548-600).  c is the closure of the render that *)
(* created the callback.                                                   *)
(***************************************************************************)
nextIndexFrom(c, i) ==
  IF c.playOrderReversed
  THEN (i - 1 + Len(c.players)) % Len(c.players)
  ELSE (i + 1) % Len(c.players)

\* A variant of skipFrozen whose bound lets the loop run once more
RECURSIVE skipFrozenOnceMore(_, _, _, _)
skipFrozenOnceMore(c, s, nextIndex, attempts) ==
  IF isPlayerFrozen(nextIndex + 1, c.modifiers) /\ attempts <= Len(c.players)
  THEN skipFrozenOnceMore(c, [removeModifier(s, nextIndex + 1, "frozen")
                                EXCEPT !.ghost.skips = @ + 1],
                          nextIndexFrom(c, nextIndex), attempts + 1)
  ELSE [s |-> s, nextIndex |-> nextIndex]

\* The while loop over frozen players: [s, nextIndex] when it ends
RECURSIVE skipFrozen(_, _, _, _)
skipFrozen(c, s, nextIndex, attempts) ==
  IF isPlayerFrozen(nextIndex + 1, c.modifiers) /\ attempts < Len(c.players)
  THEN skipFrozen(c, [removeModifier(s, nextIndex + 1, "frozen")
                         EXCEPT !.ghost.pendingFreeze = @ \ {nextIndex + 1},
                                !.ghost.skips = @ + 1],
                  nextIndexFrom(c, nextIndex), attempts + 1)
  ELSE [s |-> s, nextIndex |-> nextIndex]

handleNextTurn(c, s) ==
  LET s1 == completeCurrentQuestion(s)
      s2 == SetRef(SetRef(SetRef(s1, "playerAnswers", <<>>),
                          "roundSteps", <<>>), "pendingMovements", <<>>)
      s3 == [s2 EXCEPT !.activeHumanIndex = 0, !.activeTwist = NoTwist,
                       !.showTwistChoice = FALSE,
                       !.ghost.advances = @ + 1, !.ghost.skips = 0]
  IN  IF c.extraTurnPending
      THEN [s3 EXCEPT !.extraTurnPending = FALSE, !.gamePhase = "spinning"]
      ELSE
        LET s4 == IF c.reverseTurnsRemaining > 0
                  THEN [s3 EXCEPT !.reverseTurnsRemaining = @ - 1,
                                  !.playOrderReversed =
                                     IF c.reverseTurnsRemaining = 1
                                     THEN FALSE ELSE @]
                  ELSE s3
            s5 == [tickModifiers(s4) EXCEPT !.ghost.ticks = @ + 1,
                                            !.ghost.reverseDue =
                                               IF @ > 0 THEN @ - 1 ELSE 0]
            r  == skipFrozen(c, s5, nextIndexFrom(c, c.currentTurnIndex), 0)
        IN  [r.s EXCEPT !.currentTurnIndex = r.nextIndex,
                        !.gamePhase = "spinning"]

(***************************************************************************)
(* The wheel, the question round and the movement queue                    *)
(***************************************************************************)
forcedCategoryOf(c) ==
  IF c.currentTurnIndex + 1 \in DOMAIN c.players
  THEN getForcedCategory(c.currentTurnIndex + 1, c.modifiers)
  ELSE NoCategory

\* A variant of difficultyToUse that ignores the chosen difficulty
difficultyAsSpun(c, result) == result


difficultyToUse(c, result) ==
  IF c.chosenDifficulty # NoDifficulty THEN c.chosenDifficulty ELSE result

\* What Math.random can select inside handleWheelComplete: a card for the
\* 'twist' face, a question for a difficulty face (NoQuestion: none left)
wheelTwistChoices(s, result) ==
  IF result = TwistFace THEN drawTwistChoices(s) ELSE {0}

wheelQuestionChoices(c, s, result) ==
  IF result = TwistFace THEN {NoQuestion}
  ELSE IF selectableQuestions(s, difficultyToUse(c, result), forcedCategoryOf(c)) = {}
       THEN {NoQuestion}
       ELSE selectableQuestions(s, difficultyToUse(c, result), forcedCategoryOf(c))

handleWheelComplete(c, s, result, twist, pick) ==
  IF result = TwistFace
  THEN LET s1 == markTwistUsed(drawTwist(s), twist)
       IN  SetTimeout([s1 EXCEPT !.activeTwist = TwistOf(twist)],
                      "showTwist", TwistShowDelay, NoClosure)
  ELSE SetTimeout(selectQuestionByDifficulty(
                    [s EXCEPT !.chosenDifficulty = NoDifficulty,
                              !.ghost.asked = [by |-> s.currentTurnIndex + 1,
                                               category |-> forcedCategoryOf(c),
                                               difficulty |-> difficultyToUse(c, result)],
                              !.ghost.masterDue =
                                {IF m.playerId = s.currentTurnIndex + 1 /\ m.left > 0
                                 THEN [m EXCEPT !.left = @ - 1] ELSE m : m \in @}],
                    pick),
                  "showQuestion", QuestionShowDelay, NoClosure)

hasAnswered(s, playerId) ==
  \E i \in DOMAIN s.playerAnswers : s.playerAnswers[i].playerId = playerId

\* The answers of a question: one is correct
AnswerIds == {1, 2}
correctAnswerId(q) == 1

simulateDigitalAnswer(s, playerId, answerId) ==
  IF s.currentQuestion = NoQuestion THEN s
  ELSE IF hasAnswered(s, playerId) THEN s
  ELSE SetRef(s, "playerAnswers",
              Append(s.playerAnswers, [playerId |-> playerId, answerId |-> answerId]))

activeHumanPlayer(s) ==
  IF s.activeHumanIndex + 1 \in DOMAIN humanPlayers(s)
  THEN humanPlayers(s)[s.activeHumanIndex + 1] ELSE NoPlayer

handleAnswerClick(s, answerId) ==
  IF activeHumanPlayer(s) = NoPlayer \/ s.gamePhase # "question" THEN s
  ELSE IF hasAnswered(s, activeHumanPlayer(s)) THEN s
  ELSE LET s1 == SetRef(s, "playerAnswers",
                        Append(s.playerAnswers,
                               [playerId |-> activeHumanPlayer(s),
                                answerId |-> answerId]))
       IN  IF s.activeHumanIndex < Len(humanPlayers(s)) - 1
           THEN [s1 EXCEPT !.activeHumanIndex = @ + 1] ELSE s1

\* A variant of allPlayersAnswered that is satisfied by a first answer
someoneAnswered(s) == Len(s.playerAnswers) >= 1


allPlayersAnswered(s) == Len(s.playerAnswers) = Len(s.players)

\* handleCountdownComplete: the steps of player p
isCorrectOf(s, p) ==
  \E i \in DOMAIN s.playerAnswers :
    /\ s.playerAnswers[i].playerId = p
    /\ s.playerAnswers[i].answerId = correctAnswerId(s.currentQuestion)

\* A variant of stepsEarnedOf that forgets the double_next multiplier
stepsEarnedUndoubled(s, p) ==
  IF isCorrectOf(s, p)
  THEN IF p = currentTurnPlayer(s)
       THEN s.questions[s.currentQuestion].difficulty ELSE 1
  ELSE 0

stepsEarnedOf(s, p) ==
  IF isCorrectOf(s, p)
  THEN (IF p = currentTurnPlayer(s)
        THEN s.questions[s.currentQuestion].difficulty ELSE 1)
         * getStepsMultiplier(p, s.modifiers)
  ELSE 0

RECURSIVE removeUsedDoubles(_, _, _)
removeUsedDoubles(c, s, p) ==
  IF p > Len(c.players) THEN s
  ELSE removeUsedDoubles(
         c,
         IF isCorrectOf(c, p) /\ getStepsMultiplier(p, c.modifiers) > 1
         THEN removeModifier(s, p, "double_next") ELSE s,
         p + 1)

handleCountdownComplete(s) ==
  IF s.currentQuestion = NoQuestion THEN s
  ELSE
    LET stepsResults ==
          [p \in PlayerIds(s) |->
             [player |-> p, stepsEarned |-> stepsEarnedOf(s, p),
              isCorrect |-> isCorrectOf(s, p),
              isCurrentTurn |-> (p = currentTurnPlayer(s))]]
        earning == SelectSeq(stepsResults, LAMBDA r : r.stepsEarned > 0)
        movements == [i \in DOMAIN earning |->
                        [playerId |-> earning[i].player,
                         steps |-> earning[i].stepsEarned]]
        s1 == removeUsedDoubles(s, s, 1)
        s2 == SetRef(SetRef(s1, "roundSteps", stepsResults),
                     "pendingMovements", movements)
    IN  [s2 EXCEPT !.currentMovingPlayerIndex = 0, !.gamePhase = "results",
                   !.ghost.pendingDouble = @ \ {p \in PlayerIds(s) : isCorrectOf(s, p)},
                   !.ghost.origin = [p \in PlayerIds(s) |-> s.players[p].boardPosition]]

\* A variant of handleStartMovement that opens 'moving' on an empty queue too
startMovementAlways(c, s) ==
  [s EXCEPT !.currentMovingPlayerIndex = 0, !.gamePhase = "moving"]

\* handleStartMovement is memoised on [pendingMovements] only: the
\* handleNextTurn it calls is the one of the render that last set them
handleStartMovement(c, s) ==
  IF Len(s.pendingMovements) = 0 THEN handleNextTurn(c, s)
  ELSE [s EXCEPT !.currentMovingPlayerIndex = 0, !.gamePhase = "moving"]

movePlayer(s, p, newPosition) ==
  SetRef(s, "players", [s.players EXCEPT ![p].boardPosition = newPosition])

processNextMovement(s) ==
  IF s.currentMovingPlayerIndex >= Len(s.pendingMovements)
  THEN IF availableStars(s.stars) = {}
       THEN [s EXCEPT !.gamePhase = "finished"]
       ELSE handleNextTurn(s, s)
  ELSE
    LET movement == s.pendingMovements[s.currentMovingPlayerIndex + 1]
        player == movement.playerId
        gatesPassed == getGatesPassed(s.players[player].boardPosition, movement.steps)
        newPosition == newPositionAfter(s.players[player].boardPosition, movement.steps)
        s1 == [movePlayer(s, player, newPosition)
                 EXCEPT !.ghost.move =
                          [player |-> player, from |-> s.players[player].boardPosition,
                           steps |-> movement.steps,
                           unearned |-> Cardinality(availableStars(s.stars)),
                           collected |-> s.players[player].starsCollected,
                           score |-> s.players[player].score]]
    IN  IF player \notin PlayerIds(s) THEN s
        ELSE IF Len(gatesPassed) > 0 /\ availableStars(s.stars) # {}
        THEN [SetRef(s1, "gatesPassedQueue", gatesPassed)
                EXCEPT !.selectingStarPlayer = player, !.gamePhase = "selectStar",
                       !.ghost.awaitingStar = player]
        ELSE SetTimeout(s1, "moveNext", MoveNextDelay, NoClosure)

(***************************************************************************)
(* Star selection and reveal                                               *)
(***************************************************************************)
handleSelectStar(s, star) ==
  IF s.selectingStarPlayer = NoPlayer THEN s
  ELSE [s EXCEPT !.revealingStar = [id |-> star, pointValue |-> s.stars[star].pointValue],
                 !.gamePhase = "revealingStar"]

\* A variant of awardStar that adds the points and forgets the star count
awardStarPointsOnly(s, star, p, pointValue) ==
  LET s1 == SetRef(s, "stars",
                   [s.stars EXCEPT ![star].isEarned = TRUE,
                                   ![star].earnedByPlayerId = p])
  IN  SetRef(s1, "players", [s1.players EXCEPT ![p].score = @ + pointValue])

awardStar(s, star, p, pointValue) ==
  LET s1 == SetRef(s, "stars",
                   [s.stars EXCEPT ![star].isEarned = TRUE,
                                   ![star].earnedByPlayerId = p])
  IN  SetRef(s1, "players",
             [s1.players EXCEPT ![p].score = @ + pointValue,
                                ![p].starsCollected = @ + 1])

handleStarRevealComplete(s) ==
  IF s.selectingStarPlayer = NoPlayer \/ s.revealingStar = NoRevealingStar THEN s
  ELSE
    LET s1 == awardStar(s, s.revealingStar.id, s.selectingStarPlayer,
                        s.revealingStar.pointValue)
        remainingGates == IF s.gatesPassedQueue = <<>> THEN <<>>
                          ELSE Tail(s.gatesPassedQueue)
        remainingStars == availableStars(s.stars) \ {s.revealingStar.id}
        s2 == [s1 EXCEPT !.revealingStar = NoRevealingStar]
    IN  IF Len(remainingGates) > 0 /\ remainingStars # {}
        THEN [SetRef(s2, "gatesPassedQueue", remainingGates)
                EXCEPT !.gamePhase = "selectStar"]
        ELSE LET s3 == [SetRef(s2, "gatesPassedQueue", <<>>)
                          EXCEPT !.selectingStarPlayer = NoPlayer,
                                 !.ghost.awaitingStar = NoPlayer]
             IN  IF remainingStars = {}
                 THEN [s3 EXCEPT !.gamePhase = "finished"]
                 ELSE [s3 EXCEPT !.currentMovingPlayerIndex = @ + 1,
                                 !.gamePhase = "moving"]

(***************************************************************************)
(* Twists: executeImmediateTwist (part_008 98-331) and handleTwistConfirm  *)
(***************************************************************************)
NoModifier == [playerId |-> NoPlayer, type |-> "none", turnsRemaining |-> 0, value |-> 0]

\* TwistExecutionResult; absent optional fields are <<>>, NoModifier, FALSE, 0
Result(pl, st, md, extra, rev, next, popup, bonus) ==
  [players |-> pl, stars |-> st, addModifier |-> md, extraTurnPending |-> extra,
   reverseOrder |-> rev, goToNextTurn |-> next, showChoicePopup |-> popup,
   goToBonusQuestion |-> bonus, goToSpinning |-> FALSE]

\* A variant of OrDefault that always takes the default
AlwaysDefault(v, d) == d

OrDefault(v, d) == IF v # 0 THEN v ELSE d

\* A variant of executeImmediateTwist whose mass move leaves the drawer of the
\* card in place
executeOthersMove(twist, currentPlayer, pls, sts, randomPos) ==
  Result([p \in DOMAIN pls |->
            IF p = currentPlayer THEN pls[p]
            ELSE [pls[p] EXCEPT !.boardPosition =
                    (@ + OrDefault(twist.effectValue, 2)) % TOTAL_STEPS]],
         <<>>, NoModifier, FALSE, 0, TRUE, FALSE, FALSE)

\* randomPos is the value of Math.floor(Math.random() * TOTAL_STEPS)
executeImmediateTwist(twist, currentPlayer, pls, sts, randomPos) ==
  LET moved(f(_)) == [p \in DOMAIN pls |-> [pls[p] EXCEPT !.boardPosition = f(p)]]
      pos(p) == pls[p].boardPosition
      only(pl) == Result(pl, <<>>, NoModifier, FALSE, 0, TRUE, FALSE, FALSE)
      zeroStars == {k \in DOMAIN sts : sts[k].earnedByPlayerId = currentPlayer
                                        /\ sts[k].pointValue = 0}
  IN  IF twist.requiresChoice
      THEN Result(<<>>, <<>>, NoModifier, FALSE, 0, FALSE, TRUE, FALSE)
      ELSE CASE twist.effectType = "move_back_gate" ->
                  IF twist.effectValue # 0
                  THEN only(moved(LAMBDA p : IF p = currentPlayer
                         THEN (pos(p) - twist.effectValue + TOTAL_STEPS) % TOTAL_STEPS
                         ELSE pos(p)))
                  ELSE only(moved(LAMBDA p : IF p = currentPlayer
                         THEN findPreviousGate(pos(p)) ELSE pos(p)))
             [] twist.effectType = "others_back_gate" ->
                  only(moved(LAMBDA p : IF p = currentPlayer THEN pos(p)
                                        ELSE findPreviousGate(pos(p))))
             [] twist.effectType = "random_teleport" ->
                  only(moved(LAMBDA p : IF p = currentPlayer THEN randomPos
                                        ELSE pos(p)))
             [] twist.effectType = "everyone_moves" ->
                  only(moved(LAMBDA p :
                         (pos(p) + OrDefault(twist.effectValue, 2)) % TOTAL_STEPS))
             [] twist.effectType = "upgrade_zero_star" ->
                  IF zeroStars # {}
                  THEN Result([pls EXCEPT ![currentPlayer].score = @ + UPGRADED_STAR_VALUE],
                              [sts EXCEPT ![Min(zeroStars)].pointValue = UPGRADED_STAR_VALUE],
                              NoModifier, FALSE, 0, TRUE, FALSE, FALSE)
                  ELSE only(<<>>)
             [] twist.effectType = "instant_points" ->
                  only([pls EXCEPT ![currentPlayer].score =
                                      @ + OrDefault(twist.effectValue, 50)])
             [] twist.effectType = "double_next" ->
                  Result(<<>>, <<>>,
                         [playerId |-> currentPlayer, type |-> "double_next",
                          turnsRemaining |-> 2, value |-> 2],
                         FALSE, 0, TRUE, FALSE, FALSE)
             [] twist.effectType = "bonus_question" ->
                  Result(<<>>, <<>>, NoModifier, FALSE, 0, FALSE, FALSE, TRUE)
             [] twist.effectType = "extra_turn" ->
                  Result(<<>>, <<>>, NoModifier, TRUE, 0, TRUE, FALSE, FALSE)
             [] twist.effectType = "reverse_order" ->
                  Result(<<>>, <<>>, NoModifier, FALSE,
                         OrDefault(twist.effectValue, 3), TRUE, FALSE, FALSE)
             [] twist.effectType = "shield" ->
                  Result(<<>>, <<>>,
                         [playerId |-> currentPlayer, type |-> "shield",
                          turnsRemaining |-> OrDefault(twist.effectValue, 2),
                          value |-> 0],
                         FALSE, 0, TRUE, FALSE, FALSE)
             [] OTHER -> only(<<>>)

\* The questions the bonus question can be: any difficulty is drawn
bonusQuestionChoices(c, s) ==
  UNION {IF selectableQuestions(s, d, forcedCategoryOf(c)) = {} THEN {NoQuestion}
         ELSE selectableQuestions(s, d, forcedCategoryOf(c)) : d \in DifficultyLevels}

handleTwistConfirm(c, s, randomPos, pick) ==
  IF c.activeTwist = NoTwist \/ c.currentTurnIndex + 1 \notin DOMAIN c.players THEN s
  ELSE
    LET result == executeImmediateTwist(c.activeTwist, c.currentTurnIndex + 1,
                                        c.players, c.stars, randomPos)
        s0 == IF result.showChoicePopup THEN s
              ELSE [s EXCEPT !.ghost.confirms = @ + 1]
        s1 == IF result.players # <<>> THEN SetRef(s0, "players", result.players) ELSE s0
        s2 == IF result.stars # <<>> THEN SetRef(s1, "stars", result.stars) ELSE s1
        s3 == IF result.addModifier # NoModifier
              THEN [addModifier(s2, result.addModifier)
                      EXCEPT !.ghost.pendingDouble =
                               IF result.addModifier.type = "double_next"
                               THEN @ \cup {c.currentTurnIndex + 1} ELSE @]
              ELSE s2
        s4 == IF result.extraTurnPending
              THEN [s3 EXCEPT !.extraTurnPending = TRUE] ELSE s3
        s5 == IF result.reverseOrder # 0
              THEN [s4 EXCEPT !.playOrderReversed = TRUE,
                              !.reverseTurnsRemaining = result.reverseOrder,
                              !.ghost.reverseDue = result.reverseOrder]
              ELSE s4
    IN  IF result.showChoicePopup
        THEN [s5 EXCEPT !.showTwistChoice = TRUE, !.gamePhase = "twistChoice"]
        ELSE IF result.goToBonusQuestion
        THEN [selectQuestionByDifficulty(s5, pick)
                EXCEPT !.bonusQuestionSteps = OrDefault(c.activeTwist.effectValue, 5),
                       !.gamePhase = "twistBonusQ"]
        ELSE IF result.goToSpinning
        THEN [s5 EXCEPT !.activeTwist = NoTwist, !.gamePhase = "spinning"]
        ELSE IF result.goToNextTurn
        THEN SetTimeout([s5 EXCEPT !.activeTwist = NoTwist],
                        "nextTurn", NextTurnDelay, c)
        ELSE s5

(***************************************************************************)
(* Twist choices (page.tsx 706-847) and the bonus question (603-646)       *)
(***************************************************************************)
starsOf(st, p) == {k \in DOMAIN st : st[k].earnedByPlayerId = p}

\* A variant of closeChoice that closes the popup and sets no timer
closeChoiceWithoutAdvance(c, s) ==
  [s EXCEPT !.showTwistChoice = FALSE, !.activeTwist = NoTwist]

\* After a choice: close the popup and advance the turn one second later
closeChoice(c, s) ==
  SetTimeout([s EXCEPT !.showTwistChoice = FALSE, !.activeTwist = NoTwist],
             "nextTurn", NextTurnDelay, c)

\* A variant of stealChoices that draws among the stars of all players
stealChoicesOfAnyone(c, targetPlayer) ==
  IF starsOf(c.stars, targetPlayer) = {} THEN {NoStar}
  ELSE {k \in DOMAIN c.stars : c.stars[k].isEarned}

\* randomStar is the star Math.random takes from the target (NoStar: none)
stealChoices(c, targetPlayer) ==
  IF starsOf(c.stars, targetPlayer) = {} THEN {NoStar}
  ELSE starsOf(c.stars, targetPlayer)

handleTwistChoosePlayer(c, s, targetPlayer, randomStar) ==
  IF c.activeTwist = NoTwist \/ c.currentTurnIndex + 1 \notin DOMAIN c.players THEN s
  ELSE
    LET me == c.currentTurnIndex + 1
        effect == c.activeTwist.effectType
        upd(f(_, _)) == [p \in DOMAIN s.players |-> f(p, s.players[p])]
        s1 ==
          CASE effect = "steal_star" ->
                 IF randomStar # NoStar
                 THEN LET v == c.stars[randomStar].pointValue
                          st == SetRef(s, "stars",
                                  [s.stars EXCEPT ![randomStar].earnedByPlayerId = me])
                      IN  SetRef(st, "players",
                            upd(LAMBDA p, r :
                              IF p = targetPlayer
                              THEN [r EXCEPT !.score = @ - v, !.starsCollected = @ - 1]
                              ELSE IF p = me
                              THEN [r EXCEPT !.score = @ + v, !.starsCollected = @ + 1]
                              ELSE r))
                 ELSE s
            [] effect = "swap_positions" ->
                 SetRef(s, "players",
                   upd(LAMBDA p, r :
                     IF p = me
                     THEN [r EXCEPT !.boardPosition = c.players[targetPlayer].boardPosition]
                     ELSE IF p = targetPlayer
                     THEN [r EXCEPT !.boardPosition = c.players[me].boardPosition]
                     ELSE r))
            [] effect = "freeze_player" ->
                 [addModifier(s, [playerId |-> targetPlayer, type |-> "frozen",
                                  turnsRemaining |-> 1, value |-> 0])
                    EXCEPT !.ghost.freeze = [by |-> me, target |-> targetPlayer],
                           !.ghost.pendingFreeze = @ \cup {targetPlayer}]
            [] effect = "points_swap" ->
                 IF c.players[me].score < c.players[targetPlayer].score
                 THEN SetRef(s, "players",
                        upd(LAMBDA p, r :
                          IF p = me
                          THEN [r EXCEPT !.score = c.players[targetPlayer].score]
                          ELSE IF p = targetPlayer
                          THEN [r EXCEPT !.score = c.players[me].score]
                          ELSE r))
                 ELSE s
            [] OTHER -> s
    IN  closeChoice(c, s1)

handleTwistChooseGate(c, s, gatePosition) ==
  IF c.currentTurnIndex + 1 \notin DOMAIN c.players THEN s
  ELSE closeChoice(c, movePlayer(s, c.currentTurnIndex + 1, gatePosition))

handleTwistChooseDifficulty(s, difficulty) ==
  [s EXCEPT !.chosenDifficulty = difficulty, !.showTwistChoice = FALSE,
            !.activeTwist = NoTwist, !.gamePhase = "spinning",
            !.ghost.overrideBy = s.currentTurnIndex + 1]

handleTwistChooseCategory(c, s, category) ==
  IF c.currentTurnIndex + 1 \notin DOMAIN c.players \/ c.activeTwist = NoTwist THEN s
  ELSE closeChoice(c,
         addModifier([s EXCEPT !.ghost.masterDue =
                                  {m \in @ : m.playerId # c.currentTurnIndex + 1}
                                    \cup {[playerId |-> c.currentTurnIndex + 1,
                                           category |-> category,
                                           left |-> OrDefault(c.activeTwist.effectValue, 3)]}],
                     [playerId |-> c.currentTurnIndex + 1,
                      type |-> "category_master",
                      turnsRemaining |-> OrDefault(c.activeTwist.effectValue, 3),
                      value |-> category]))

handleTwistFreeStar(c, s, star) ==
  IF c.currentTurnIndex + 1 \notin DOMAIN c.players THEN s
  ELSE closeChoice(c, awardStar(s, star, c.currentTurnIndex + 1,
                                c.stars[star].pointValue))

handleStarPeek(c, s, star) ==
  SetTimeout([s EXCEPT !.peekedStarId = star], "peekEnd", StarPeekDuration, c)

\* The callback of handleStarPeek's timer
peekEnd(c, s) ==
  handleNextTurn(c, [s EXCEPT !.peekedStarId = NoStar, !.showTwistChoice = FALSE,
                              !.activeTwist = NoTwist])

handleBonusQuestionAnswer(c, s, isCorrect) ==
  IF \/ c.currentTurnIndex + 1 \notin DOMAIN c.players
     \/ s.currentQuestion = NoQuestion
     \/ s.gamePhase # "twistBonusQ"
  THEN s
  ELSE
    LET me == c.currentTurnIndex + 1
        from == c.players[me].boardPosition
        gatesPassed == getGatesPassed(from, s.bonusQuestionSteps)
        s1 == movePlayer(s, me, newPositionAfter(from, s.bonusQuestionSteps))
    IN  IF isCorrect
        THEN IF Len(gatesPassed) > 0 /\ availableStars(c.stars) # {}
             THEN SetTimeout([SetRef(s1, "gatesPassedQueue", gatesPassed)
                                EXCEPT !.selectingStarPlayer = me],
                             "bonusSelectStar", BonusFeedbackDelay, c)
             ELSE SetTimeout(s1, "bonusNextTurn", BonusFeedbackDelay, c)
        ELSE SetTimeout(s, "bonusNextTurn", BonusFeedbackDelay, c)

\* The callbacks of handleBonusQuestionAnswer's timers
bonusSelectStar(s) ==
  [completeCurrentQuestion(s) EXCEPT !.activeTwist = NoTwist, !.gamePhase = "selectStar"]

bonusNextTurn(c, s) ==
  handleNextTurn(c, [completeCurrentQuestion(s) EXCEPT !.activeTwist = NoTwist])

(***************************************************************************)
(* Rendering.  After a handler has run React renders GameContent again if  *)
(* a cell changed; the render mounts and unmounts components, runs the     *)
(* cleanup of every effect whose dependencies changed and runs the effect  *)
(* again.  An effect's timer is an entry of timers that its cleanup        *)
(* removes; the other entries are never cleared.                           *)
(***************************************************************************)
NoSegment == -1
CountdownSeconds == 2

\* Bounds of the model: the values Math.random() takes in a thinking time,
\* in tenths of the range
JitterTenths == {1, 8}
thinkingTime(base, range, j) == base + (range * j) \div 10

finishedScreen(s) == s.gamePhase = "finished" \/ isGameOver(s)

\* The finished screen: [...players].sort((a, b) => b.score - a.score), a
\* stable sort, as the insertion of each player in roster order behind the
\* players sorted so far whose score is not lower; players are their ids
insertBeforeEqual(sorted, pls, p) ==
  LET ahead == SelectSeq(sorted, LAMBDA q : pls[q].score > pls[p].score)
      behind == SelectSeq(sorted, LAMBDA q : pls[q].score <= pls[p].score)
  IN  ahead \o <<p>> \o behind

insertByScore(sorted, pls, p) ==
  LET ahead == SelectSeq(sorted, LAMBDA q : pls[q].score >= pls[p].score)
      behind == SelectSeq(sorted, LAMBDA q : pls[q].score < pls[p].score)
  IN  ahead \o <<p>> \o behind

RECURSIVE sortedUpTo(_, _)
sortedUpTo(pls, n) ==
  IF n = 0 THEN <<>> ELSE insertByScore(sortedUpTo(pls, n - 1), pls, n)

sortedPlayers(s) == sortedUpTo(s.players, Len(s.players))
winner(s) == sortedPlayers(s)[1]

isDigitalTurn(s) ==
  HasCurrentTurnPlayer(s) /\ s.players[currentTurnPlayer(s)].type = "digital"
wheelMounted(s) == s.gamePhase = "spinning" /\ ~finishedScreen(s)
countdownMounted(s) == s.gamePhase = "countdown" /\ ~finishedScreen(s)
twistPopupOpen(s) ==
  s.gamePhase = "twist" /\ s.activeTwist # NoTwist /\ ~finishedScreen(s)

nextDigitalPlayer(s) ==
  LET waiting == SelectSeq(digitalPlayers(s), LAMBDA p : ~hasAnswered(s, p))
  IN  IF waiting = <<>> THEN NoPlayer ELSE waiting[1]

\* The cells of GameContent: everything but the timers, the cells of the
\* child components and the bookkeeping
View(s) ==
  [s EXCEPT !.timers = <<>>, !.touched = {}, !.startMovementClosure = NoClosure,
            !.turnsStarted = 0, !.ghost = NoGhost, !.isSpinning = FALSE,
            !.selectedSegment = NoSegment, !.hasAutoSpun = FALSE, !.count = 0]

rendered(old, new) == new.touched # {} \/ View(old) # View(new)

\* Does effect e hold a timer in the render of s
effectActive(e, s) ==
  CASE e = "digitalAnswer" ->
         s.gamePhase = "question" /\ s.currentQuestion # NoQuestion
           /\ nextDigitalPlayer(s) # NoPlayer
    [] e = "startCountdown" -> allPlayersAnswered(s) /\ s.gamePhase = "question"
    [] e = "countdownTick" -> countdownMounted(s) /\ s.count > 0
    [] e = "processMovement" -> s.gamePhase = "moving"
    [] e = "digitalSelectStar" ->
         s.gamePhase = "selectStar" /\ s.selectingStarPlayer # NoPlayer
           /\ s.players[s.selectingStarPlayer].type = "digital"
           /\ availableStars(s.stars) # {}
    [] e = "starRevealClose" ->
         s.gamePhase = "revealingStar" /\ s.revealingStar # NoRevealingStar
           /\ ~finishedScreen(s)
    [] e = "digitalTwistConfirm" ->
         s.gamePhase = "twist" /\ isDigitalTurn(s) /\ s.activeTwist # NoTwist
    [] e = "digitalBonusAnswer" ->
         s.gamePhase = "twistBonusQ" /\ isDigitalTurn(s)
           /\ s.currentQuestion # NoQuestion
    [] e = "digitalTwistChoice" ->
         s.gamePhase = "twistChoice" /\ isDigitalTurn(s) /\ s.activeTwist # NoTwist
    [] e = "autoSpin" ->
         wheelMounted(s) /\ isDigitalTurn(s) /\ ~s.isSpinning
           /\ s.selectedSegment = NoSegment /\ ~s.hasAutoSpun

\* The dependency list of effect e changed between two renders
nextTurnDeps(s) ==
  <<s.players, s.extraTurnPending, s.playOrderReversed, s.reverseTurnsRemaining,
    s.currentTurnIndex, s.modifiers>>

depsChanged(e, old, new) ==
  CASE e = "startCountdown" ->
         allPlayersAnswered(old) # allPlayersAnswered(new)
           \/ old.gamePhase # new.gamePhase
    [] e = "starRevealClose" ->
         \/ effectActive(e, old) # effectActive(e, new)
         \/ old.revealingStar # new.revealingStar
         \/ old.selectingStarPlayer # new.selectingStarPlayer
         \/ old.gatesPassedQueue # new.gatesPassedQueue
         \/ old.stars # new.stars
         \/ new.touched \cap {"gatesPassedQueue", "stars"} # {}
    [] e = "digitalTwistConfirm" ->
         \/ old.gamePhase # new.gamePhase
         \/ old.activeTwist # new.activeTwist
         \/ old.stars # new.stars
         \/ nextTurnDeps(old) # nextTurnDeps(new)
         \/ new.touched \cap {"players", "stars", "modifiers"} # {}
    [] e = "autoSpin" ->
         \/ rendered(old, new)
         \/ wheelMounted(old) # wheelMounted(new)
         \/ <<old.isSpinning, old.selectedSegment, old.hasAutoSpun>>
              # <<new.isSpinning, new.selectedSegment, new.hasAutoSpun>>
    [] e = "countdownTick" ->
         rendered(old, new) \/ old.count # new.count
    [] OTHER -> rendered(old, new)

effectDelay(e, j) ==
  CASE e = "digitalAnswer" -> thinkingTime(DigitalAnswerBase, DigitalAnswerRange, j)
    [] e = "startCountdown" -> CountdownStartDelay
    [] e = "countdownTick" -> CountdownTickDelay
    [] e = "processMovement" -> MoveEffectDelay
    [] e = "digitalSelectStar" -> thinkingTime(DigitalStarBase, DigitalStarRange, j)
    [] e = "starRevealClose" -> StarRevealDuration
    [] e = "digitalTwistConfirm" -> DigitalConfirmDelay
    [] e = "digitalBonusAnswer" -> thinkingTime(DigitalBonusBase, DigitalBonusRange, j)
    [] e = "digitalTwistChoice" -> thinkingTime(DigitalChoiceBase, DigitalChoiceRange, j)
    [] e = "autoSpin" -> AutoSpinDelay

Effects ==
  << "digitalAnswer", "startCountdown", "countdownTick", "processMovement",
     "digitalSelectStar", "starRevealClose", "digitalTwistConfirm",
     "digitalBonusAnswer", "digitalTwistChoice", "autoSpin" >>

withoutTimer(ts, e) == SelectSeq(ts, LAMBDA x : x.kind # e)

\* Effects in declaration order: cleanup, then the effect again
RECURSIVE runEffects(_, _, _, _, _)
runEffects(es, old, new, ts, j) ==
  IF es = <<>> THEN ts
  ELSE LET e == Head(es)
           ts1 == IF ~effectActive(e, new) THEN withoutTimer(ts, e)
                  ELSE IF depsChanged(e, old, new)
                  THEN Append(withoutTimer(ts, e),
                              [kind |-> e, due |-> effectDelay(e, j), clo |-> NoClosure])
                  ELSE ts
       IN  runEffects(Tail(es), old, new, ts1, j)

\* Mounting and unmounting of SpinningWheel and RevealCountdown
mountComponents(old, new) ==
  LET w == IF ~wheelMounted(new) \/ ~wheelMounted(old)
           THEN [new EXCEPT !.isSpinning = FALSE, !.selectedSegment = NoSegment,
                            !.hasAutoSpun = FALSE]
           ELSE IF old.currentTurnIndex # new.currentTurnIndex
           THEN [new EXCEPT !.selectedSegment = NoSegment, !.hasAutoSpun = FALSE]
           ELSE new
  IN  IF ~countdownMounted(w) THEN [w EXCEPT !.count = 0]
      ELSE IF ~countdownMounted(old) THEN [w EXCEPT !.count = CountdownSeconds]
      ELSE w

\* TwistCardPopup sets an auto-confirm timer in its render body
popupTimers(old, new, ts) ==
  IF rendered(old, new) /\ twistPopupOpen(new) /\ isDigitalTurn(new)
  THEN Append(ts, [kind |-> "popupConfirm", due |-> PopupConfirmDelay,
                   clo |-> Closure(new)])
  ELSE ts

render(old, new, j) ==
  LET m == mountComponents(old, new)
  IN  [m EXCEPT !.timers = runEffects(Effects, old, m, popupTimers(old, m, m.timers), j),
                !.startMovementClosure =
                   IF "pendingMovements" \in new.touched THEN Closure(m) ELSE @,
                !.touched = {}]

(***************************************************************************)
(* Actions.  Commit(n) renders the state n a handler has produced.         *)
(***************************************************************************)
Commit(n) ==
  \E j \in JitterTenths, old \in {Cur}, new \in {n} :
    \E r \in {render(old, new, j)} :
        /\ players' = r.players
        /\ stars' = r.stars
        /\ currentTurnIndex' = r.currentTurnIndex
        /\ gamePhase' = r.gamePhase
        /\ playerAnswers' = r.playerAnswers
        /\ activeHumanIndex' = r.activeHumanIndex
        /\ roundSteps' = r.roundSteps
        /\ pendingMovements' = r.pendingMovements
        /\ currentMovingPlayerIndex' = r.currentMovingPlayerIndex
        /\ gatesPassedQueue' = r.gatesPassedQueue
        /\ selectingStarPlayer' = r.selectingStarPlayer
        /\ revealingStar' = r.revealingStar
        /\ questions' = r.questions
        /\ usedQuestionIds' = r.usedQuestionIds
        /\ currentQuestion' = r.currentQuestion
        /\ usedTwistIds' = r.usedTwistIds
        /\ activeTwist' = r.activeTwist
        /\ modifiers' = r.modifiers
        /\ showTwistChoice' = r.showTwistChoice
        /\ chosenDifficulty' = r.chosenDifficulty
        /\ extraTurnPending' = r.extraTurnPending
        /\ playOrderReversed' = r.playOrderReversed
        /\ reverseTurnsRemaining' = r.reverseTurnsRemaining
        /\ bonusQuestionSteps' = r.bonusQuestionSteps
        /\ peekedStarId' = r.peekedStarId
        /\ isSpinning' = r.isSpinning
        /\ selectedSegment' = r.selectedSegment
        /\ hasAutoSpun' = r.hasAutoSpun
        /\ count' = r.count
        /\ timers' = r.timers
        /\ startMovementClosure' = r.startMovementClosure
        /\ turnsStarted' = r.turnsStarted
        /\ ghost' = r.ghost

\* Timers: the due entry set first runs first
Due == {i \in DOMAIN timers : timers[i].due = 0}
Fires(kind) == Due # {} /\ timers[Min(Due)].kind = kind
firingClosure == timers[Min(Due)].clo
\* The state in which the callback of the firing timer runs
Popped ==
  [Cur EXCEPT !.timers = [i \in 1..(Len(timers) - 1) |->
                            IF i < Min(Due) THEN timers[i] ELSE timers[i + 1]]]

\* Time passes until the next timer is due
Elapse ==
  /\ timers # <<>>
  /\ Due = {}
  /\ LET d == Min({timers[i].due : i \in DOMAIN timers})
     IN  timers' = [i \in DOMAIN timers |-> [timers[i] EXCEPT !.due = @ - d]]
  /\ UNCHANGED << players, stars, currentTurnIndex, gamePhase,
       playerAnswers, activeHumanIndex, roundSteps,
       pendingMovements, currentMovingPlayerIndex, gatesPassedQueue,
       selectingStarPlayer, revealingStar,
       questions, usedQuestionIds, currentQuestion,
       usedTwistIds, activeTwist, modifiers,
       showTwistChoice, chosenDifficulty, extraTurnPending,
       playOrderReversed, reverseTurnsRemaining, bonusQuestionSteps, peekedStarId,
       isSpinning, selectedSegment, hasAutoSpun, count,
       startMovementClosure, turnsStarted, ghost >>

\* SpinningWheel.spinWheel (72-111); the face is drawn when it stops
spinWheel(s) ==
  IF s.isSpinning THEN s
  ELSE SetTimeout([s EXCEPT !.isSpinning = TRUE, !.selectedSegment = NoSegment,
                            !.turnsStarted = @ + 1,
                            !.ghost = [NoGhost EXCEPT
                                         !.pendingFreeze = s.ghost.pendingFreeze,
                                         !.awaitingStar = s.ghost.awaitingStar,
                                         !.returned = s.ghost.returned,
                                         !.repeated = s.ghost.repeated,
                                         !.pendingDouble = s.ghost.pendingDouble,
                                         !.masterDue = s.ghost.masterDue,
                                         !.asked = s.ghost.asked,
                                         !.reverseDue = s.ghost.reverseDue,
                                         !.overrideBy = s.ghost.overrideBy,
                                         !.origin = s.ghost.origin]],
                  "spinComplete", SpinDuration, Closure(s))

SpinWheel ==
  /\ wheelMounted(Cur) /\ ~isDigitalTurn(Cur)
  /\ ~isSpinning /\ selectedSegment = NoSegment
  /\ turnsStarted < MaxTurns
  /\ Commit(spinWheel(Cur))

AutoSpin ==
  /\ Fires("autoSpin")
  /\ turnsStarted < MaxTurns
  /\ Commit(spinWheel([Popped EXCEPT !.hasAutoSpun = TRUE]))

\* The wheel stops on one of faces; cards bounds the twist cards drawn
SpinComplete(faces, cards) ==
  /\ Fires("spinComplete")
  /\ \E result \in faces :
       \E twist \in (wheelTwistChoices(Cur, result) \cap (cards \cup {0})),
          pick \in wheelQuestionChoices(firingClosure, Cur, result) :
         Commit(handleWheelComplete(
                  firingClosure,
                  IF wheelMounted(Cur)
                  THEN [Popped EXCEPT !.selectedSegment = result, !.isSpinning = FALSE]
                  ELSE Popped,
                  result, twist, pick))

ShowTwist ==
  /\ Fires("showTwist")
  /\ Commit([Popped EXCEPT !.gamePhase = "twist"])

ShowQuestion ==
  /\ Fires("showQuestion")
  /\ Commit([Popped EXCEPT !.gamePhase = "question"])

\* --- the question round ---
AnswerClick ==
  /\ gamePhase = "question" /\ currentQuestion # NoQuestion /\ ~finishedScreen(Cur)
  /\ activeHumanPlayer(Cur) # NoPlayer
  /\ ~hasAnswered(Cur, activeHumanPlayer(Cur))
  /\ \E answerId \in AnswerIds : Commit(handleAnswerClick(Cur, answerId))

DigitalAnswer ==
  /\ Fires("digitalAnswer")
  /\ \E answerId \in AnswerIds :
       Commit(simulateDigitalAnswer(Popped, nextDigitalPlayer(Cur), answerId))

StartCountdown ==
  /\ Fires("startCountdown")
  /\ Commit([Popped EXCEPT !.gamePhase = "countdown"])

\* RevealCountdown: a tick; at zero its effect calls onComplete
CountdownTick ==
  /\ Fires("countdownTick")
  /\ Commit(IF count - 1 <= 0
            THEN handleCountdownComplete([Popped EXCEPT !.count = count - 1])
            ELSE [Popped EXCEPT !.count = count - 1])

StartMovement ==
  /\ gamePhase = "results" /\ roundSteps # <<>> /\ currentQuestion # NoQuestion
  /\ ~finishedScreen(Cur)
  /\ Commit(handleStartMovement(startMovementClosure, Cur))

ProcessMovement ==
  /\ Fires("processMovement")
  /\ Commit(processNextMovement(Popped))

MoveNext ==
  /\ Fires("moveNext")
  /\ Commit([Popped EXCEPT !.currentMovingPlayerIndex = @ + 1])

\* --- stars ---
SelectStarClick ==
  /\ gamePhase = "selectStar" /\ ~finishedScreen(Cur)
  /\ \E star \in pickableStars(stars) : Commit(handleSelectStar(Cur, star))

DigitalSelectStar ==
  /\ Fires("digitalSelectStar")
  /\ \E star \in pickableStars(stars) : Commit(handleSelectStar(Popped, star))

StarRevealClose ==
  /\ Fires("starRevealClose")
  /\ Commit(handleStarRevealComplete(Popped))

\* --- twists ---
teleportChoices(twist) ==
  IF twist.effectType = "random_teleport" THEN TeleportPositions ELSE {0}

bonusChoices(c, s) ==
  IF c.activeTwist.effectType = "bonus_question"
  THEN bonusQuestionChoices(c, s) ELSE {NoQuestion}

TwistConfirmClick ==
  /\ twistPopupOpen(Cur) /\ HasCurrentTurnPlayer(Cur) /\ ~isDigitalTurn(Cur)
  /\ \E randomPos \in teleportChoices(activeTwist),
        pick \in bonusChoices(Cur, Cur) :
       Commit(handleTwistConfirm(Closure(Cur), Cur, randomPos, pick))

DigitalTwistConfirm ==
  /\ Fires("digitalTwistConfirm")
  /\ \E randomPos \in teleportChoices(activeTwist),
        pick \in bonusChoices(Cur, Cur) :
       Commit(handleTwistConfirm(Closure(Cur), Popped, randomPos, pick))

\* TwistCardPopup's timer runs the handleTwistConfirm of the render that set it
PopupConfirm ==
  /\ Fires("popupConfirm")
  /\ \E randomPos \in teleportChoices(firingClosure.activeTwist),
        pick \in bonusChoices(firingClosure, Cur) :
       Commit(handleTwistConfirm(firingClosure, Popped, randomPos, pick))

NextTurnTimeout ==
  /\ Fires("nextTurn")
  /\ Commit(handleNextTurn(firingClosure, Popped))

\* TwistChoicePopup (open for whoever holds the device)
choicePopupOpen(s) ==
  /\ s.gamePhase = "twistChoice" /\ s.showTwistChoice /\ s.activeTwist # NoTwist
  /\ HasCurrentTurnPlayer(s) /\ ~finishedScreen(s)
  /\ s.activeTwist.effectType \notin {"free_star", "star_peek"}

otherPlayers(s) == PlayerIds(s) \ {currentTurnPlayer(s)}
playersWithStars(s) == {p \in otherPlayers(s) : s.players[p].starsCollected > 0}
selectablePlayers(s) ==
  IF s.activeTwist.effectType = "steal_star" THEN playersWithStars(s)
  ELSE otherPlayers(s)

ChoosePlayerClick ==
  /\ choicePopupOpen(Cur) /\ activeTwist.targetPlayer = "choose"
  /\ \E targetPlayer \in selectablePlayers(Cur) :
       \E randomStar \in stealChoices(Cur, targetPlayer) :
         Commit(handleTwistChoosePlayer(Closure(Cur), Cur, targetPlayer, randomStar))

ChooseGateClick ==
  /\ choicePopupOpen(Cur) /\ activeTwist.effectType = "teleport_gate"
  /\ \E gatePosition \in BOARD_GATE_POSITIONS :
       Commit(handleTwistChooseGate(Closure(Cur), Cur, gatePosition))

ChooseDifficultyClick ==
  /\ choicePopupOpen(Cur) /\ activeTwist.effectType = "difficulty_choice"
  /\ \E difficulty \in DifficultyLevels :
       Commit(handleTwistChooseDifficulty(Cur, difficulty))

selectedCategories(s) == {s.questions[q].category : q \in DOMAIN s.questions}

ChooseCategoryClick ==
  /\ choicePopupOpen(Cur) /\ activeTwist.effectType = "category_master"
  /\ \E category \in selectedCategories(Cur) :
       Commit(handleTwistChooseCategory(Closure(Cur), Cur, category))

\* CircularBoard: stars are clickable while starSelectionActive
starTwistActive(s, effect) ==
  s.gamePhase = "twistChoice" /\ s.activeTwist.effectType = effect
    /\ ~finishedScreen(s)

FreeStarClick ==
  /\ starTwistActive(Cur, "free_star")
  /\ \E star \in pickableStars(stars) :
       Commit(handleTwistFreeStar(Closure(Cur), Cur, star))

StarPeekClick ==
  /\ starTwistActive(Cur, "star_peek")
  /\ Len(timers) < MaxTimers
  /\ \E star \in pickableStars(stars) :
       Commit(handleStarPeek(Closure(Cur), Cur, star))

PeekEnd ==
  /\ Fires("peekEnd")
  /\ Commit(peekEnd(firingClosure, Popped))

\* The digital twist-choice effect (881-925): the states its callback can
\* leave, one per outcome of Math.random
digitalTwistChoice(c, s) ==
  LET effect == c.activeTwist.effectType
  IN  IF c.activeTwist.targetPlayer = "choose"
      THEN IF effect = "steal_star"
           THEN IF playersWithStars(s) # {}
                THEN UNION {{handleTwistChoosePlayer(c, s, tp, rs) :
                               rs \in stealChoices(c, tp)} :
                             tp \in playersWithStars(s)}
                ELSE {handleNextTurn(c, [s EXCEPT !.showTwistChoice = FALSE,
                                                  !.activeTwist = NoTwist])}
           ELSE IF otherPlayers(s) # {}
                THEN {handleTwistChoosePlayer(c, s, tp, NoStar) : tp \in otherPlayers(s)}
                ELSE {s}
      ELSE CASE effect = "teleport_gate" ->
                  {handleTwistChooseGate(c, s, g) : g \in BOARD_GATE_POSITIONS}
             [] effect = "difficulty_choice" ->
                  {handleTwistChooseDifficulty(s, d) : d \in DifficultyLevels}
             [] effect = "category_master" ->
                  {handleTwistChooseCategory(c, s, k) : k \in selectedCategories(s)}
             [] effect = "free_star" ->
                  IF availableStars(s.stars) # {}
                  THEN {handleTwistFreeStar(c, s, k) : k \in pickableStars(s.stars)}
                  ELSE {s}
             [] effect = "star_peek" ->
                  IF availableStars(s.stars) # {}
                  THEN {handleStarPeek(c, s, k) : k \in pickableStars(s.stars)}
                  ELSE {s}
             [] OTHER -> {s}

DigitalTwistChoice ==
  /\ Fires("digitalTwistChoice")
  /\ \E n \in digitalTwistChoice(Closure(Cur), Popped) : Commit(n)

\* --- the bonus question ---
BonusAnswerClick ==
  /\ gamePhase = "twistBonusQ" /\ currentQuestion # NoQuestion
  /\ HasCurrentTurnPlayer(Cur) /\ ~isDigitalTurn(Cur) /\ ~finishedScreen(Cur)
  /\ Len(timers) < MaxTimers
  /\ \E isCorrect \in BOOLEAN :
       Commit(handleBonusQuestionAnswer(Closure(Cur), Cur, isCorrect))

DigitalBonusAnswer ==
  /\ Fires("digitalBonusAnswer")
  /\ \E isCorrect \in BOOLEAN :
       Commit(handleBonusQuestionAnswer(Closure(Cur), Popped, isCorrect))

BonusSelectStar ==
  /\ Fires("bonusSelectStar")
  /\ Commit(bonusSelectStar(Popped))

BonusNextTurn ==
  /\ Fires("bonusNextTurn")
  /\ Commit(bonusNextTurn(firingClosure, Popped))

(***************************************************************************)
(* Initial states: createPlayersFromSettings (humans first, each on a gate) *)
(* and createInitialStars (the ten values in a shuffled order)             *)
(***************************************************************************)
createPlayersFromSettings(types) ==
  [i \in DOMAIN types |->
     [type |-> types[i], score |-> 0,
      boardPosition |-> GATE_POSITIONS[((i - 1) % Len(GATE_POSITIONS)) + 1],
      starsCollected |-> 0]]

createInitialStars(shuffledValues) ==
  [k \in DOMAIN shuffledValues |->
     [pointValue |-> shuffledValues[k], isEarned |-> FALSE,
      earnedByPlayerId |-> NoPlayer]]

\* The first render of a game with players pls and stars sts
SetupFrom(pls, sts, pool, turns) ==
  /\ players = pls
  /\ stars = sts
  /\ currentTurnIndex = 0
  /\ gamePhase = "spinning"
  /\ playerAnswers = <<>>
  /\ activeHumanIndex = 0
  /\ roundSteps = <<>>
  /\ pendingMovements = <<>>
  /\ currentMovingPlayerIndex = 0
  /\ gatesPassedQueue = <<>>
  /\ selectingStarPlayer = NoPlayer
  /\ revealingStar = NoRevealingStar
  /\ questions = pool
  /\ usedQuestionIds = {}
  /\ currentQuestion = NoQuestion
  /\ usedTwistIds = {}
  /\ activeTwist = NoTwist
  /\ modifiers = <<>>
  /\ showTwistChoice = FALSE
  /\ chosenDifficulty = NoDifficulty
  /\ extraTurnPending = FALSE
  /\ playOrderReversed = FALSE
  /\ reverseTurnsRemaining = 0
  /\ bonusQuestionSteps = 5
  /\ peekedStarId = NoStar
  /\ isSpinning = FALSE
  /\ selectedSegment = NoSegment
  /\ hasAutoSpun = FALSE
  /\ count = 0
  /\ timers = IF pls[1].type = "digital" /\ availableStars(sts) # {}
              THEN <<[kind |-> "autoSpin", due |-> AutoSpinDelay, clo |-> NoClosure]>>
              ELSE <<>>
  /\ startMovementClosure = NoClosure
  /\ turnsStarted = turns
  /\ ghost = NoGhost

Setup(types, shuffledValues, pool) ==
  SetupFrom(createPlayersFromSettings(types), createInitialStars(shuffledValues),
            pool, 0)

\* Bounds of the model: rosters, star orders and question pools
Rosters ==
  { <<"human", "human", "human">>, <<"human", "human", "digital">>,
    <<"human", "digital", "digital">>, <<"digital", "digital", "digital">> }

StarOrders ==
  { STAR_POINT_VALUES,
    [k \in DOMAIN STAR_POINT_VALUES |->
       STAR_POINT_VALUES[Len(STAR_POINT_VALUES) + 1 - k]] }

Question(d, k) == [difficulty |-> d, category |-> k]
SmallPool == << Question(5, 1), Question(5, 2), Question(2, 1) >>

Init == \E types \in Rosters, order \in StarOrders : Setup(types, order, SmallPool)

AllFaces == Range(WHEEL_SEGMENTS)

Next ==
  \/ Elapse
  \/ SpinWheel
  \/ AutoSpin
  \/ SpinComplete(AllFaces, CardIds)
  \/ ShowTwist
  \/ ShowQuestion
  \/ AnswerClick
  \/ DigitalAnswer
  \/ StartCountdown
  \/ CountdownTick
  \/ StartMovement
  \/ ProcessMovement
  \/ MoveNext
  \/ SelectStarClick
  \/ DigitalSelectStar
  \/ StarRevealClose
  \/ TwistConfirmClick
  \/ DigitalTwistConfirm
  \/ PopupConfirm
  \/ NextTurnTimeout
  \/ ChoosePlayerClick
  \/ ChooseGateClick
  \/ ChooseDifficultyClick
  \/ ChooseCategoryClick
  \/ FreeStarClick
  \/ StarPeekClick
  \/ PeekEnd
  \/ DigitalTwistChoice
  \/ BonusAnswerClick
  \/ DigitalBonusAnswer
  \/ BonusSelectStar
  \/ BonusNextTurn

Spec == Init /\ [][Next]_vars

(***************************************************************************)
(* The star and points twists: free_star, steal_star, upgrade_zero_star    *)
(* and points_swap drawn from the 'twist' face by three players            *)
(***************************************************************************)
StarCards == {7, 8, 9, 13, 24}
StarRosters == { <<"human", "human", "digital">>, <<"human", "digital", "digital">> }

InitStars == \E types \in StarRosters, order \in StarOrders : Setup(types, order, SmallPool)

NextStars ==
  \/ Elapse
  \/ SpinWheel
  \/ AutoSpin
  \/ SpinComplete({TwistFace}, StarCards)
  \/ ShowTwist
  \/ TwistConfirmClick
  \/ DigitalTwistConfirm
  \/ PopupConfirm
  \/ NextTurnTimeout
  \/ ChoosePlayerClick
  \/ FreeStarClick
  \/ DigitalTwistChoice

SpecStars == InitStars /\ [][NextStars]_vars

(***************************************************************************)
(* The end of a game: a game in which eight stars have been earned, played *)
(* with the 5 face and the 'twist' face (free_star, steal_star,            *)
(* bonus_question)                                                         *)
(***************************************************************************)
EndgameCards == {7, 8, 15}
EndgameRosters == { <<"human", "digital">>, <<"human", "human">> }
\* The turns played before the end of the game that are left out
EndgameTurn == MaxTurns - 2
EndgamePool == << Question(5, 1), Question(5, 1), Question(5, 1), Question(5, 1) >>

\* Stars 1..earned earned in turn by the players, each score the sum of its
\* stars
earnedInTurn(values, n, earned) ==
  [k \in DOMAIN values |->
     IF k <= earned
     THEN [pointValue |-> values[k], isEarned |-> TRUE,
           earnedByPlayerId |-> ((k - 1) % n) + 1]
     ELSE [pointValue |-> values[k], isEarned |-> FALSE,
           earnedByPlayerId |-> NoPlayer]]

holding(types, sts) ==
  [i \in DOMAIN types |->
     [type |-> types[i],
      score |-> SumSeq([k \in DOMAIN sts |->
                          IF sts[k].earnedByPlayerId = i THEN sts[k].pointValue ELSE 0]),
      boardPosition |-> GATE_POSITIONS[((i - 1) % Len(GATE_POSITIONS)) + 1],
      starsCollected |-> Cardinality(starsOf(sts, i))]]

InitEndgame ==
  \E types \in EndgameRosters, order \in StarOrders :
    SetupFrom(holding(types, earnedInTurn(order, Len(types), 8)),
              earnedInTurn(order, Len(types), 8), EndgamePool, EndgameTurn)

NextEndgame ==
  \/ Elapse
  \/ SpinWheel
  \/ AutoSpin
  \/ SpinComplete({5, TwistFace}, EndgameCards)
  \/ ShowTwist
  \/ ShowQuestion
  \/ AnswerClick
  \/ DigitalAnswer
  \/ StartCountdown
  \/ CountdownTick
  \/ StartMovement
  \/ ProcessMovement
  \/ MoveNext
  \/ SelectStarClick
  \/ DigitalSelectStar
  \/ StarRevealClose
  \/ TwistConfirmClick
  \/ DigitalTwistConfirm
  \/ PopupConfirm
  \/ NextTurnTimeout
  \/ ChoosePlayerClick
  \/ FreeStarClick
  \/ DigitalTwistChoice
  \/ BonusAnswerClick
  \/ DigitalBonusAnswer
  \/ BonusSelectStar
  \/ BonusNextTurn

SpecEndgame == InitEndgame /\ [][NextEndgame]_vars

(***************************************************************************)
(* The last star: a game in which nine stars have been earned, played with *)
(* the 5 face and the 'twist' face (bonus_question)                        *)
(***************************************************************************)
FinishCards == {15, 28}

InitFinish ==
  \E types \in EndgameRosters, order \in StarOrders :
    SetupFrom(holding(types, earnedInTurn(order, Len(types), 9)),
              earnedInTurn(order, Len(types), 9), EndgamePool, EndgameTurn)

NextFinish ==
  \/ Elapse
  \/ SpinWheel
  \/ AutoSpin
  \/ SpinComplete({5, TwistFace}, FinishCards)
  \/ ShowTwist
  \/ ShowQuestion
  \/ AnswerClick
  \/ DigitalAnswer
  \/ StartCountdown
  \/ CountdownTick
  \/ StartMovement
  \/ ProcessMovement
  \/ MoveNext
  \/ SelectStarClick
  \/ DigitalSelectStar
  \/ StarRevealClose
  \/ TwistConfirmClick
  \/ DigitalTwistConfirm
  \/ PopupConfirm
  \/ BonusAnswerClick
  \/ DigitalBonusAnswer
  \/ BonusSelectStar
  \/ BonusNextTurn

SpecFinish == InitFinish /\ [][NextFinish]_vars

(***************************************************************************)
(* The modifier store: freeze_player, star_peek and double_next drawn from *)
(* the 'twist' face by three players                                       *)
(***************************************************************************)
ModifierCards == {10, 14, 19}
ModifierRosters == { <<"human", "human", "digital">>, <<"human", "digital", "digital">> }

InitModifiers ==
  \E types \in ModifierRosters, order \in StarOrders : Setup(types, order, SmallPool)

NextModifiers ==
  \/ Elapse
  \/ SpinWheel
  \/ AutoSpin
  \/ SpinComplete({TwistFace}, ModifierCards)
  \/ ShowTwist
  \/ TwistConfirmClick
  \/ DigitalTwistConfirm
  \/ PopupConfirm
  \/ NextTurnTimeout
  \/ ChoosePlayerClick
  \/ StarPeekClick
  \/ PeekEnd
  \/ DigitalTwistChoice

SpecModifiers == InitModifiers /\ [][NextModifiers]_vars

(***************************************************************************)
(* The question pool running out: a pool of two questions, played with the *)
(* 5 face and the 'twist' face (bonus_question)                            *)
(***************************************************************************)
QuestionCards == {15, 28}
QuestionRosters == { <<"human", "digital">>, <<"human", "human">> }
TinyPool == << Question(5, 1), Question(3, 2) >>

InitQuestions ==
  \E types \in QuestionRosters, order \in StarOrders : Setup(types, order, TinyPool)

NextQuestions ==
  \/ Elapse
  \/ SpinWheel
  \/ AutoSpin
  \/ SpinComplete({5, TwistFace}, QuestionCards)
  \/ ShowTwist
  \/ ShowQuestion
  \/ AnswerClick
  \/ DigitalAnswer
  \/ StartCountdown
  \/ CountdownTick
  \/ StartMovement
  \/ ProcessMovement
  \/ MoveNext
  \/ SelectStarClick
  \/ DigitalSelectStar
  \/ StarRevealClose
  \/ TwistConfirmClick
  \/ DigitalTwistConfirm
  \/ PopupConfirm
  \/ BonusAnswerClick
  \/ DigitalBonusAnswer
  \/ BonusSelectStar
  \/ BonusNextTurn

SpecQuestions == InitQuestions /\ [][NextQuestions]_vars

(***************************************************************************)
(* The question round: questions of several difficulties answered by all   *)
(* players, played with the 3 face and the 'twist' face (double_next)      *)
(***************************************************************************)
RoundCards == {14}
RoundRosters == { <<"human", "digital">>, <<"human", "human", "digital">> }
RoundPool == << Question(3, 1), Question(2, 1), Question(4, 1), Question(1, 1) >>

InitRound ==
  \E types \in RoundRosters : Setup(types, STAR_POINT_VALUES, RoundPool)

NextRound ==
  \/ Elapse
  \/ SpinWheel
  \/ AutoSpin
  \/ SpinComplete({3, TwistFace}, RoundCards)
  \/ ShowTwist
  \/ ShowQuestion
  \/ AnswerClick
  \/ DigitalAnswer
  \/ StartCountdown
  \/ CountdownTick
  \/ StartMovement
  \/ ProcessMovement
  \/ MoveNext
  \/ SelectStarClick
  \/ DigitalSelectStar
  \/ StarRevealClose
  \/ TwistConfirmClick
  \/ DigitalTwistConfirm
  \/ PopupConfirm
  \/ NextTurnTimeout

SpecRound == InitRound /\ [][NextRound]_vars

(***************************************************************************)
(* The instant_points cards (50, 100 and 150 points) drawn from the        *)
(* 'twist' face by three players; timers that are due fire                 *)
(***************************************************************************)
PointsCards == {11, 12, 26}
PointsRosters == { <<"human", "human", "digital">>, <<"human", "digital", "digital">> }

InitPoints ==
  \E types \in PointsRosters, order \in StarOrders : Setup(types, order, SmallPool)

PointsTimers ==
  \/ Elapse
  \/ AutoSpin
  \/ SpinComplete({TwistFace}, PointsCards)
  \/ ShowTwist
  \/ DigitalTwistConfirm
  \/ PopupConfirm
  \/ NextTurnTimeout

NextPoints ==
  \/ PointsTimers
  \/ SpinWheel
  \/ TwistConfirmClick

SpecPoints == InitPoints /\ [][NextPoints]_vars /\ WF_vars(PointsTimers)

(***************************************************************************)
(* The modifier store of useTwists on its own: any sequence of             *)
(* addModifier, removeModifier and tickModifiers calls                     *)
(***************************************************************************)
StoreTypes == {"frozen", "double_next"}
StoreModifiers ==
  [playerId : 1..2, type : StoreTypes, turnsRemaining : 1..2, value : {0, 2}]

\* A call on the store: the other cells stay
StoreCall(n) ==
  /\ modifiers' = n.modifiers
  /\ UNCHANGED << players, stars, currentTurnIndex, gamePhase,
       playerAnswers, activeHumanIndex, roundSteps,
       pendingMovements, currentMovingPlayerIndex, gatesPassedQueue,
       selectingStarPlayer, revealingStar,
       questions, usedQuestionIds, currentQuestion,
       usedTwistIds, activeTwist,
       showTwistChoice, chosenDifficulty, extraTurnPending,
       playOrderReversed, reverseTurnsRemaining, bonusQuestionSteps, peekedStarId,
       isSpinning, selectedSegment, hasAutoSpun, count,
       timers, startMovementClosure, turnsStarted, ghost >>

StoreAdd(m) == StoreCall(addModifier(Cur, m))
StoreRemove(playerId, type) == StoreCall(removeModifier(Cur, playerId, type))
StoreTick == StoreCall(tickModifiers(Cur))

InitStore == Setup(<<"human", "human">>, STAR_POINT_VALUES, SmallPool)

NextStore ==
  \/ \E m \in StoreModifiers : StoreAdd(m)
  \/ \E playerId \in 1..2, type \in StoreTypes : StoreRemove(playerId, type)
  \/ StoreTick

SpecStore == InitStore /\ [][NextStore]_vars

(***************************************************************************)
(* The twist deck of useTwists on its own: draw a card, mark it used and   *)
(* show it, over and over until the deck has been reshuffled               *)
(***************************************************************************)
\* Math.random picks among the DeckPicks lowest unused cards; the first card
\* of a reshuffled deck is any card
DeckPicks == 2
lowestAvailable(s) ==
  { id \in availableTwists(s) :
      Cardinality({ o \in availableTwists(s) : o < id }) < DeckPicks }

DeckDraw(id) ==
  /\ id \in drawTwistChoices(Cur)
  /\ availableTwists(Cur) # {} => id \in lowestAvailable(Cur)
  /\ usedTwistIds' = markTwistUsed(drawTwist(Cur), id).usedTwistIds
  /\ activeTwist' = TwistOf(id)
  /\ UNCHANGED << players, stars, currentTurnIndex, gamePhase,
       playerAnswers, activeHumanIndex, roundSteps,
       pendingMovements, currentMovingPlayerIndex, gatesPassedQueue,
       selectingStarPlayer, revealingStar,
       questions, usedQuestionIds, currentQuestion, modifiers,
       showTwistChoice, chosenDifficulty, extraTurnPending,
       playOrderReversed, reverseTurnsRemaining, bonusQuestionSteps, peekedStarId,
       isSpinning, selectedSegment, hasAutoSpun, count,
       timers, startMovementClosure, turnsStarted, ghost >>

InitDeck == Setup(<<"human", "human">>, STAR_POINT_VALUES, SmallPool)

NextDeck == \E id \in CardIds : DeckDraw(id)

SpecDeck == InitDeck /\ [][NextDeck]_vars

(***************************************************************************)
(* The question store of useQuestions on its own: any sequence of          *)
(* selectQuestionByDifficulty calls over one loaded pool                   *)
(***************************************************************************)
SelectPool ==
  << Question(1, 1), Question(2, 2), Question(3, 1), Question(3, 2),
     Question(5, 1), Question(5, 1), Question(5, 2) >>
SelectCategories == {NoCategory, 1, 2, 3}

Select(difficulty, forcedCategory) ==
  /\ \E pick \in (IF selectableQuestions(Cur, difficulty, forcedCategory) = {}
                   THEN {NoQuestion}
                   ELSE selectableQuestions(Cur, difficulty, forcedCategory)) :
        LET n == selectQuestionByDifficulty(Cur, pick)
        IN  /\ usedQuestionIds' = n.usedQuestionIds
            /\ currentQuestion' = n.currentQuestion
            /\ ghost' = n.ghost
  /\ UNCHANGED << players, stars, currentTurnIndex, gamePhase,
       playerAnswers, activeHumanIndex, roundSteps,
       pendingMovements, currentMovingPlayerIndex, gatesPassedQueue,
       selectingStarPlayer, revealingStar,
       questions, usedTwistIds, activeTwist, modifiers,
       showTwistChoice, chosenDifficulty, extraTurnPending,
       playOrderReversed, reverseTurnsRemaining, bonusQuestionSteps, peekedStarId,
       isSpinning, selectedSegment, hasAutoSpun, count,
       timers, startMovementClosure, turnsStarted >>

InitSelect == Setup(<<"human", "human">>, STAR_POINT_VALUES, SelectPool)

NextSelect ==
  \E difficulty \in DifficultyLevels, forcedCategory \in SelectCategories :
    Select(difficulty, forcedCategory)

SpecSelect == InitSelect /\ [][NextSelect]_vars

(***************************************************************************)
(* One queued move on its own: the movement effect of the moving phase     *)
(* runs processNextMovement for a player on any square and any number of   *)
(* steps                                                                   *)
(***************************************************************************)
MaxSteps == 30

InitMove ==
  \E startPos \in 0..(TOTAL_STEPS - 1), steps \in 0..MaxSteps :
    /\ players = [createPlayersFromSettings(<<"human", "human">>)
                    EXCEPT ![1].boardPosition = startPos]
    /\ stars = createInitialStars(STAR_POINT_VALUES)
    /\ currentTurnIndex = 0
    /\ gamePhase = "moving"
    /\ playerAnswers = << [playerId |-> 1, answerId |-> 1],
                          [playerId |-> 2, answerId |-> 2] >>
    /\ activeHumanIndex = 0
    /\ roundSteps =
         << [player |-> 1, stepsEarned |-> steps, isCorrect |-> TRUE,
             isCurrentTurn |-> TRUE],
            [player |-> 2, stepsEarned |-> 0, isCorrect |-> FALSE,
             isCurrentTurn |-> FALSE] >>
    /\ pendingMovements = << [playerId |-> 1, steps |-> steps] >>
    /\ currentMovingPlayerIndex = 0
    /\ gatesPassedQueue = <<>>
    /\ selectingStarPlayer = NoPlayer
    /\ revealingStar = NoRevealingStar
    /\ questions = SmallPool
    /\ usedQuestionIds = {1}
    /\ currentQuestion = 1
    /\ usedTwistIds = {}
    /\ activeTwist = NoTwist
    /\ modifiers = <<>>
    /\ showTwistChoice = FALSE
    /\ chosenDifficulty = NoDifficulty
    /\ extraTurnPending = FALSE
    /\ playOrderReversed = FALSE
    /\ reverseTurnsRemaining = 0
    /\ bonusQuestionSteps = 5
    /\ peekedStarId = NoStar
    /\ isSpinning = FALSE
    /\ selectedSegment = NoSegment
    /\ hasAutoSpun = FALSE
    /\ count = 0
    /\ timers = << [kind |-> "processMovement", due |-> MoveEffectDelay,
                    clo |-> NoClosure] >>
    /\ startMovementClosure = NoClosure
    /\ turnsStarted = 1
    /\ ghost = [NoGhost EXCEPT !.returned = {1}]

NextMove == Elapse \/ ProcessMovement

SpecMove == InitMove /\ [][NextMove]_vars

(***************************************************************************)
(* Back to the previous gate: one turn of a game of two players standing   *)
(* on any squares, in which move_back_gate or others_back_gate is drawn    *)
(***************************************************************************)
GateCards == {1, 2}

InitGate ==
  \E startPos \in [1..2 -> 0..(TOTAL_STEPS - 1)] :
    SetupFrom([p \in 1..2 |->
                 [createPlayersFromSettings(<<"human", "human">>)[p]
                    EXCEPT !.boardPosition = startPos[p]]],
              createInitialStars(STAR_POINT_VALUES), SmallPool, MaxTurns - 1)

NextGate ==
  \/ Elapse
  \/ SpinWheel
  \/ SpinComplete({TwistFace}, GateCards)
  \/ ShowTwist
  \/ TwistConfirmClick
  \/ NextTurnTimeout

SpecGate == InitGate /\ [][NextGate]_vars

(***************************************************************************)
(* The board: a game played with the 3 face and the 'twist' face, the      *)
(* twist cards being those that move a player                              *)
(***************************************************************************)
BoardCards == {1, 2, 3, 4, 5, 6, 15, 22}
BoardTurn == MaxTurns - 3
BoardPool == << Question(3, 1), Question(3, 1) >>

InitBoard ==
  SetupFrom(createPlayersFromSettings(<<"human", "digital">>),
            createInitialStars(STAR_POINT_VALUES), BoardPool, BoardTurn)

NextBoard ==
  \/ Elapse
  \/ SpinWheel
  \/ AutoSpin
  \/ SpinComplete({3, TwistFace}, BoardCards)
  \/ ShowTwist
  \/ ShowQuestion
  \/ AnswerClick
  \/ DigitalAnswer
  \/ StartCountdown
  \/ CountdownTick
  \/ StartMovement
  \/ ProcessMovement
  \/ MoveNext
  \/ SelectStarClick
  \/ DigitalSelectStar
  \/ StarRevealClose
  \/ TwistConfirmClick
  \/ DigitalTwistConfirm
  \/ PopupConfirm
  \/ NextTurnTimeout
  \/ ChoosePlayerClick
  \/ ChooseGateClick
  \/ DigitalTwistChoice
  \/ BonusAnswerClick
  \/ DigitalBonusAnswer
  \/ BonusSelectStar
  \/ BonusNextTurn

SpecBoard == InitBoard /\ [][NextBoard]_vars

(***************************************************************************)
(* category_master: a game of three players played with the 3 face and the *)
(* 'twist' face (category_master and instant_points), over a pool of two   *)
(* categories                                                              *)
(***************************************************************************)
CategoryCards == {11, 12, 17}
CategoryPool == << Question(3, 1), Question(3, 2) >>

InitCategory ==
  Setup(<<"human", "human", "digital">>, STAR_POINT_VALUES, CategoryPool)

NextCategory ==
  \/ Elapse
  \/ SpinWheel
  \/ AutoSpin
  \/ SpinComplete({3, TwistFace}, CategoryCards)
  \/ ShowTwist
  \/ ShowQuestion
  \/ AnswerClick
  \/ DigitalAnswer
  \/ StartCountdown
  \/ CountdownTick
  \/ StartMovement
  \/ ProcessMovement
  \/ MoveNext
  \/ TwistConfirmClick
  \/ DigitalTwistConfirm
  \/ PopupConfirm
  \/ NextTurnTimeout
  \/ ChooseCategoryClick
  \/ DigitalTwistChoice

SpecCategory == InitCategory /\ [][NextCategory]_vars

(***************************************************************************)
(* shield: a game played with the 'twist' face only, the cards being       *)
(* shield and the cards that move a player against its interest            *)
(***************************************************************************)
ShieldCards == {1, 2, 4, 21}

InitShield == Setup(<<"human", "digital">>, STAR_POINT_VALUES, SmallPool)

NextShield ==
  \/ Elapse
  \/ SpinWheel
  \/ AutoSpin
  \/ SpinComplete({TwistFace}, ShieldCards)
  \/ ShowTwist
  \/ TwistConfirmClick
  \/ DigitalTwistConfirm
  \/ PopupConfirm
  \/ NextTurnTimeout

SpecShield == InitShield /\ [][NextShield]_vars

(***************************************************************************)
(* The order of play: extra_turn, reverse_order and instant_points drawn   *)
(* from the 'twist' face by three players                                  *)
(***************************************************************************)
OrderCards == {11, 18, 20}

InitOrder == Setup(<<"human", "human", "digital">>, STAR_POINT_VALUES, SmallPool)

NextOrder ==
  \/ Elapse
  \/ SpinWheel
  \/ AutoSpin
  \/ SpinComplete({TwistFace}, OrderCards)
  \/ ShowTwist
  \/ TwistConfirmClick
  \/ DigitalTwistConfirm
  \/ PopupConfirm
  \/ NextTurnTimeout

SpecOrder == InitOrder /\ [][NextOrder]_vars

(***************************************************************************)
(* The twist choices: the cards that open a choice, drawn from the 'twist' *)
(* face by a human and a digital player                                    *)
(***************************************************************************)
ChoiceCards == {3, 5, 7, 8, 10, 13, 16, 17, 19}
ChoiceTurn == MaxTurns - 3

InitChoice ==
  SetupFrom(createPlayersFromSettings(<<"human", "digital">>),
            createInitialStars(STAR_POINT_VALUES), SmallPool, ChoiceTurn)

NextChoice ==
  \/ Elapse
  \/ SpinWheel
  \/ AutoSpin
  \/ SpinComplete({TwistFace}, ChoiceCards)
  \/ ShowTwist
  \/ TwistConfirmClick
  \/ DigitalTwistConfirm
  \/ PopupConfirm
  \/ NextTurnTimeout
  \/ ChoosePlayerClick
  \/ ChooseGateClick
  \/ ChooseDifficultyClick
  \/ ChooseCategoryClick
  \/ FreeStarClick
  \/ StarPeekClick
  \/ PeekEnd
  \/ DigitalTwistChoice

SpecChoice == InitChoice /\ [][NextChoice]_vars

(***************************************************************************)
(* The chosen difficulty: difficulty_choice and instant_points drawn from  *)
(* the 'twist' face, questions asked from the 3 face                       *)
(***************************************************************************)
OverrideCards == {11, 16}
OverridePool == << Question(3, 1), Question(1, 1) >>

InitOverride == Setup(<<"human", "digital">>, STAR_POINT_VALUES, OverridePool)

NextOverride ==
  \/ Elapse
  \/ SpinWheel
  \/ AutoSpin
  \/ SpinComplete({3, TwistFace}, OverrideCards)
  \/ ShowTwist
  \/ ShowQuestion
  \/ AnswerClick
  \/ DigitalAnswer
  \/ StartCountdown
  \/ CountdownTick
  \/ StartMovement
  \/ ProcessMovement
  \/ MoveNext
  \/ TwistConfirmClick
  \/ DigitalTwistConfirm
  \/ PopupConfirm
  \/ NextTurnTimeout
  \/ ChooseDifficultyClick
  \/ DigitalTwistChoice

SpecOverride == InitOverride /\ [][NextOverride]_vars

(***************************************************************************)
(* The frozen-skip loop of handleNextTurn on any set of frozen players:     *)
(* instant_points and reverse_order are drawn, and addModifier freezes any  *)
(* players while the card is shown                                          *)
(***************************************************************************)
SkipCards == {11, 12, 20}
SkipRosters == { <<"human", "human">>, <<"human", "human", "human">> }

InitSkip ==
  \E types \in SkipRosters : Setup(types, STAR_POINT_VALUES, SmallPool)

FreezeMore ==
  /\ twistPopupOpen(Cur)
  /\ \E p \in PlayerIds(Cur) :
       /\ ~isPlayerFrozen(p, modifiers)
       /\ \A q \in PlayerIds(Cur) : q < p => isPlayerFrozen(q, modifiers)
       /\ StoreAdd([playerId |-> p, type |-> "frozen",
                    turnsRemaining |-> 1, value |-> 0])

NextSkip ==
  \/ Elapse
  \/ SpinWheel
  \/ SpinComplete({TwistFace}, SkipCards)
  \/ ShowTwist
  \/ FreezeMore
  \/ TwistConfirmClick
  \/ NextTurnTimeout

SpecSkip == InitSkip /\ [][NextSkip]_vars

(***************************************************************************)
(* The reversed order running out: reverse_order and the three             *)
(* instant_points cards drawn from the 'twist' face by two players, human   *)
(* or digital                                                               *)
(***************************************************************************)
ReverseCards == {11, 12, 20, 26}
ReverseRosters ==
  { <<"human", "human">>, <<"human", "digital">>, <<"digital", "digital">> }

InitReverse ==
  \E types \in ReverseRosters : Setup(types, STAR_POINT_VALUES, SmallPool)

NextReverse ==
  \/ Elapse
  \/ SpinWheel
  \/ AutoSpin
  \/ SpinComplete({TwistFace}, ReverseCards)
  \/ ShowTwist
  \/ TwistConfirmClick
  \/ DigitalTwistConfirm
  \/ PopupConfirm
  \/ NextTurnTimeout

SpecReverse == InitReverse /\ [][NextReverse]_vars

(***************************************************************************)
(* The winner: the last star of a game of three players, played with the   *)
(* 5 face and the 'twist' face (instant_points of 100)                      *)
(***************************************************************************)
WinnerCards == {12}
WinnerTurn == MaxTurns - 3

InitWinner ==
  \E order \in StarOrders :
    SetupFrom(holding(<<"human", "human", "human">>, earnedInTurn(order, 3, 9)),
              earnedInTurn(order, 3, 9), EndgamePool, WinnerTurn)

NextWinner ==
  \/ Elapse
  \/ SpinWheel
  \/ SpinComplete({5, TwistFace}, WinnerCards)
  \/ ShowTwist
  \/ ShowQuestion
  \/ AnswerClick
  \/ StartCountdown
  \/ CountdownTick
  \/ StartMovement
  \/ ProcessMovement
  \/ MoveNext
  \/ SelectStarClick
  \/ StarRevealClose
  \/ TwistConfirmClick
  \/ NextTurnTimeout

SpecWinner == InitWinner /\ [][NextWinner]_vars

(***************************************************************************)
(* Properties                                                              *)
(***************************************************************************)
starPoolTotal == SumSeq([k \in DOMAIN stars |-> stars[k].pointValue])
initialPoolTotal == SumSeq(STAR_POINT_VALUES)
earnedStars == {k \in DOMAIN stars : stars[k].isEarned}

\* C1 (as stated): in every reachable state the point values of the ten
\* stars, earned and unearned together, sum to 1100.
C1_PoolTotalFixed == starPoolTotal = initialPoolTotal

\* C1 (amended): the ten point values sum to 1100 as long as the 0-point
\* star has not been upgraded, and to 1100 + 250 once upgrade_zero_star has
\* turned it into a 250-point star; no other play changes a point value.
C1_PoolTotalUntilUpgrade ==
  starPoolTotal = IF \E k \in DOMAIN stars : stars[k].pointValue = 0
                  THEN initialPoolTotal
                  ELSE initialPoolTotal + 250

\* C1 witness: upgrade_zero_star has upgraded an earned 0-point star
C1_Upgraded ==
  /\ \A k \in DOMAIN stars : stars[k].pointValue # 0
  /\ \E p \in DOMAIN players : players[p].score >= UPGRADED_STAR_VALUE
  /\ usedTwistIds \cap {9} # {}

\* C8: every player's score is >= 0 in every reachable state.
C8_ScoresNonNegative == \A p \in DOMAIN players : players[p].score >= 0

\* C8 witness of the failing case: a player stolen from after a points_swap
C8_NegativeScore == \E p \in DOMAIN players : players[p].score < 0

\* C6: when steal_star is the active twist in twistChoice and no other
\* player owns a star, some event can still happen (the game is not stuck
\* in twistChoice).
C6_StealWithoutTargetsProceeds ==
  (/\ gamePhase = "twistChoice"
   /\ activeTwist.effectType = "steal_star"
   /\ playersWithStars(Cur) = {})
    => ENABLED NextStars

\* C6 witness: the automated player's skip has run (steal_star with no
\* target was resolved by the turn advance)
C6_DigitalSkipped ==
  /\ gamePhase = "spinning" /\ ghost.advances = 1
  /\ 8 \in usedTwistIds \/ 25 \in usedTwistIds
  /\ earnedStars = {}

\* C9: the starsCollected of all players sum to the number of earned stars,
\* which is 10 minus the number of unearned stars, in every reachable state.
C9_StarCountsAgree ==
  /\ SumSeq([p \in DOMAIN players |-> players[p].starsCollected])
       = Cardinality(earnedStars)
  /\ Cardinality(earnedStars) = TOTAL_STARS - Cardinality(availableStars(stars))

\* C9 witness: a star changed hands by steal_star after the ninth star was
\* earned (by a reveal or by free_star)
C9_StolenAfterAward ==
  /\ Cardinality(earnedStars) >= 9
  /\ usedTwistIds \cap {8} # {}
  /\ \E k \in 1..8 : stars[k].earnedByPlayerId # ((k - 1) % Len(players)) + 1

\* C2: in the step in which the last unearned star becomes earned the phase
\* becomes finished, and from then on no turn advance runs: the current-turn
\* index stays, the modifier store is not ticked, the phase stays finished.
C2_LastStarFinishes ==
  [][availableStars(stars') = {}
       => /\ gamePhase' = "finished"
          /\ currentTurnIndex' = currentTurnIndex
          /\ ghost'.ticks <= ghost.ticks]_vars

\* C2 witness of the failing case: the pool is empty and a turn advance has
\* set the phase back to spinning
C2_AdvancedAfterLastStar ==
  /\ availableStars(stars) = {}
  /\ gamePhase = "spinning"
  /\ ghost.advances >= 1

\* C3: once the phase is finished, no step changes the phase, the
\* current-turn index, a player, a star or a modifier.
C3_FinishedAbsorbing ==
  [][gamePhase = "finished"
       => UNCHANGED << gamePhase, currentTurnIndex, players, stars, modifiers >>]_vars

\* C3 witness of the failing case: the last star was revealed (the phase was
\* finished) and a late timer of the wheel has set the phase again
C3_LeftFinished ==
  /\ availableStars(stars) = {}
  /\ gamePhase \in {"twist", "question"}
  /\ revealingStar = NoRevealingStar

\* The player after p in the current direction of play
nextInOrder(p) == nextIndexFrom(Cur, p - 1) + 1

\* C4: when A has frozen B and B is next in the direction of play, the turn
\* advance that ends A's turn makes the player after B the current player
\* and removes B's frozen modifier.
C4_FreezeNextSkips ==
  (/\ gamePhase = "spinning" /\ ghost.advances = 1
   /\ ghost.freeze.by # NoPlayer
   /\ ghost.freeze.target = nextInOrder(ghost.freeze.by))
    => /\ currentTurnPlayer(Cur) = nextInOrder(ghost.freeze.target)
       /\ ~isPlayerFrozen(ghost.freeze.target, modifiers)

\* C4 witness of the failing case: the frozen player B has the turn
C4_FrozenPlays ==
  /\ gamePhase = "spinning" /\ ghost.advances = 1
  /\ ghost.freeze.by # NoPlayer
  /\ currentTurnPlayer(Cur) = ghost.freeze.target

\* C5: a player frozen and not yet skipped keeps the frozen modifier and
\* does not become the current player.
C5_FrozenKeptUntilSkip ==
  \A p \in ghost.pendingFreeze :
    /\ isPlayerFrozen(p, modifiers)
    /\ currentTurnPlayer(Cur) # p

\* C5 witness of the failing case: with three players, a frozen player who
\* was not next in order plays the next turn of theirs
C5_FrozenNotNextPlays ==
  /\ Len(players) >= 3
  /\ \E p \in ghost.pendingFreeze :
       /\ currentTurnPlayer(Cur) = p
       /\ isSpinning
       /\ turnsStarted >= 3

\* C10: between two spins of the wheel the modifier store is ticked at most
\* once.
C10_TickedOncePerTurn == ghost.ticks <= 1

\* C10 witness of the failing case: star_peek's timers have ticked the store
\* twice in one turn
C10_TickedTwice == ghost.ticks >= 2 /\ 10 \in usedTwistIds

\* C7: when question selection has returned no question in this turn and
\* the phase is question or twistBonusQ with no current question, some event
\* can still happen (the game ends or goes on).
C7_ExhaustedPoolProceeds ==
  (/\ ghost.noQuestion
   /\ gamePhase \in {"question", "twistBonusQ"}
   /\ currentQuestion = NoQuestion)
    => ENABLED NextQuestions

\* C7 witness of the failing case: every question is used and the question
\* phase has no question
C7_NoQuestionLeft ==
  /\ gamePhase \in {"question", "twistBonusQ"}
  /\ currentQuestion = NoQuestion
  /\ ghost.noQuestion
  /\ usedQuestionIds = DOMAIN questions
  /\ timers = <<>>

\* C11: a drawn twist is resolved once: between two spins of the wheel
\* handleTwistConfirm applies its effect at most once (the automated
\* player's second auto-confirm timer, firing after the twist phase was
\* left, applies nothing and schedules no second turn advance).
C11_TwistResolvedOnce == ghost.confirms <= 1

\* C11 witness of the failing case: an automated player's double_next was
\* confirmed by the page's timer and again by the popup's timer, and both
\* turn advances have run
C11_ConfirmedTwice ==
  /\ ghost.confirms = 2 /\ ghost.advances = 2
  /\ 14 \in usedTwistIds /\ 10 \notin usedTwistIds

\* The recorded answer of player p is the correct answer of question q
answeredCorrectly(p, q) ==
  \E i \in DOMAIN playerAnswers :
    playerAnswers[i].playerId = p /\ playerAnswers[i].answerId = correctAnswerId(q)

holdsDoubleNext(p) ==
  \E i \in DOMAIN modifiers :
    /\ modifiers[i].playerId = p /\ modifiers[i].type = "double_next"
    /\ modifiers[i].turnsRemaining > 0

\* C12: at countdown completion every player's stepsEarned is 0 for an
\* answer that is not the correct one, and otherwise the question's
\* difficulty (turn holder) or 1 (anyone else), doubled for a player who
\* holds an unexpired double_next.
C12_StepsEarned ==
  [][(gamePhase = "countdown" /\ gamePhase' = "results")
       => /\ DOMAIN roundSteps' = DOMAIN players
          /\ \A p \in DOMAIN players :
               roundSteps'[p].stepsEarned =
                 IF ~answeredCorrectly(p, currentQuestion) THEN 0
                 ELSE (IF p = currentTurnIndex + 1
                       THEN questions[currentQuestion].difficulty ELSE 1)
                        * (IF holdsDoubleNext(p) THEN 2 ELSE 1)]_vars

\* C12 witness: a round was counted in which the turn holder earned the
\* difficulty of a question that is not the wheel's face, another player
\* earned a doubled step, and a third earned nothing
C12_RoundCounted ==
  /\ gamePhase = "results" /\ Len(roundSteps) = 3
  /\ questions[currentQuestion].difficulty # 3
  /\ roundSteps[currentTurnIndex + 1].stepsEarned = questions[currentQuestion].difficulty
  /\ \E p, q \in DOMAIN roundSteps :
       /\ p # currentTurnIndex + 1 /\ roundSteps[p].stepsEarned = 2
       /\ roundSteps[q].stepsEarned = 0

\* The queued movement the moving phase is at
queuedMovement == pendingMovements[currentMovingPlayerIndex + 1]

crossesGate(p, steps) ==
  \E i \in 1..steps : ((p + i) % 25) \in {0, 5, 10, 15, 20}

\* C13: in the moving phase, the step that moves a queued player across a
\* gate while a star is unearned opens selectStar for that player, with the
\* movement queue and the turn where they were; and from then until that
\* player's star selection has ended with an award, no turn advance runs and
\* the current-turn index stays.
C13_GateOpensStarSelection ==
  [][/\ (/\ gamePhase = "moving"
          /\ currentMovingPlayerIndex < Len(pendingMovements)
          /\ players'[queuedMovement.playerId].boardPosition
                # players[queuedMovement.playerId].boardPosition
          /\ crossesGate(players[queuedMovement.playerId].boardPosition,
                         queuedMovement.steps)
          /\ availableStars(stars) # {})
        => /\ gamePhase' = "selectStar"
           /\ selectingStarPlayer' = queuedMovement.playerId
           /\ UNCHANGED << currentTurnIndex, currentMovingPlayerIndex,
                           pendingMovements >>
     /\ ghost.awaitingStar # NoPlayer
        => /\ currentTurnIndex' = currentTurnIndex
           /\ ghost'.advances <= ghost.advances]_vars

\* C13 witness of the failing case: a turn advance has run while the player
\* whose move crossed a gate had not been awarded a star
C13_AdvancedBeforeAward ==
  /\ ghost.awaitingStar # NoPlayer
  /\ gamePhase = "spinning" /\ ghost.advances >= 1
  /\ currentTurnIndex + 1 # ghost.awaitingStar

\* C14: the step in which a steal_star target who owns a star is chosen moves
\* exactly one star of the target, of some value X, to the acting player: the
\* star stays earned with the acting player as owner, the acting player's
\* score grows by X and star count by 1, the target's shrink by X and by 1,
\* and no other star or player changes.
C14_StealTransfersOneStar ==
  [][(/\ gamePhase = "twistChoice" /\ gamePhase' = "twistChoice"
      /\ activeTwist.effectType = "steal_star" /\ activeTwist' = NoTwist
      /\ playersWithStars(Cur) # {})
       => \E target \in playersWithStars(Cur) :
            \E k \in DOMAIN stars :
              /\ stars[k].earnedByPlayerId = target /\ stars[k].isEarned
              /\ stars' = [stars EXCEPT ![k].earnedByPlayerId = currentTurnIndex + 1]
              /\ players' =
                   [players EXCEPT
                      ![currentTurnIndex + 1] =
                         [@ EXCEPT !.score = @ + stars[k].pointValue,
                                   !.starsCollected = @ + 1],
                      ![target] =
                         [@ EXCEPT !.score = @ - stars[k].pointValue,
                                   !.starsCollected = @ - 1]]]_vars

\* C14 witness: a star was stolen from a player who owned several, and the
\* choice popup has closed
C14_StolenFromOwnerOfSeveral ==
  /\ gamePhase = "twistChoice" /\ activeTwist = NoTwist
  /\ 8 \in usedTwistIds /\ 7 \notin usedTwistIds
  /\ players[currentTurnIndex + 1].starsCollected = 5
  /\ \E p \in DOMAIN players : players[p].starsCollected = 3

\* C15: the step that confirms an instant_points card adds its effectValue
\* (50 if it has none) to the acting player's score and changes nothing else
\* of a player or a star; the phase never becomes twistChoice or twistBonusQ;
\* from the confirmation until the turn advance no player or star changes
\* (the points are added once); and the turn advance to spinning follows.
C15_InstantPoints ==
  /\ [][/\ (/\ gamePhase = "twist"
             /\ activeTwist.effectType = "instant_points"
             /\ activeTwist' = NoTwist)
           => /\ players' =
                   [players EXCEPT ![currentTurnIndex + 1].score =
                      @ + (IF activeTwist.effectValue # 0
                           THEN activeTwist.effectValue ELSE 50)]
              /\ stars' = stars
        /\ (gamePhase = "twist" /\ activeTwist = NoTwist)
           => players' = players /\ stars' = stars
        /\ gamePhase' \notin {"twistChoice", "twistBonusQ"}]_vars
  /\ (gamePhase = "twist" /\ activeTwist = NoTwist)
       ~> (gamePhase = "spinning" /\ ghost.advances >= 1)

\* C15 witness: an automated player's 100-point card was confirmed by both
\* of its timers, the player holds the 100 points once, and the turn has
\* advanced
C15_PointsAddedOnce ==
  /\ gamePhase = "spinning" /\ ghost.advances >= 1 /\ ghost.confirms = 2
  /\ 12 \in usedTwistIds
  /\ \E p \in DOMAIN players :
       /\ players[p].type = "digital" /\ players[p].score = 100
       /\ nextInOrder(p) = currentTurnIndex + 1

\* The entries of the store for one (playerId, type) pair
entriesFor(mods, playerId, type) ==
  SelectSeq(mods, LAMBDA m : m.playerId = playerId /\ m.type = type)

\* C16: after any sequence of add, remove and tick the store holds at most
\* one modifier per (playerId, type) pair, and after add(m) the entry of
\* m's pair is m itself (the last add replaces).
C16_ModifierPerPair ==
  /\ [](\A i, j \in DOMAIN modifiers :
          (modifiers[i].playerId = modifiers[j].playerId
             /\ modifiers[i].type = modifiers[j].type) => i = j)
  /\ [][\A m \in StoreModifiers :
          StoreAdd(m) => entriesFor(modifiers', m.playerId, m.type) = <<m>>]_vars

\* C16 witness: every pair holds an entry, the newest one being player 1's
\* frozen entry, after a tick has aged the oldest
C16_Replaced ==
  /\ Len(modifiers) = 4
  /\ modifiers[4] = [playerId |-> 1, type |-> "frozen", turnsRemaining |-> 2,
                      value |-> 2]
  /\ modifiers[1].turnsRemaining = 1

\* C17: a draw returns a card that is not in the used set, unless the used
\* set covers the whole deck of 30 cards: then the used set is cleared and a
\* card is returned all the same; a draw never returns no card.
C17_DrawsUnusedCard ==
  [][(\E id \in CardIds : DeckDraw(id)) =>
       /\ activeTwist' # NoTwist
       /\ activeTwist'.id \in 1..30
       /\ IF usedTwistIds = 1..30
          THEN usedTwistIds' = {activeTwist'.id}
          ELSE /\ activeTwist'.id \notin usedTwistIds
               /\ usedTwistIds' = usedTwistIds \cup {activeTwist'.id}]_vars

\* C17 witness: the first card of a reshuffled deck has been drawn (a fresh
\* deck gives one of its DeckPicks lowest cards)
C17_DrawnAfterReshuffle ==
  usedTwistIds = {30} /\ activeTwist # NoTwist /\ activeTwist.id = 30

\* C18: within one session no two calls of selectQuestionByDifficulty return
\* the same question, whatever the difficulties and forced categories asked.
C18_NoQuestionTwice == ~ghost.repeated

\* C18 witness: every question of the pool has been returned, the last one
\* being of the lowest difficulty
C18_AllReturned ==
  /\ ghost.returned = DOMAIN questions
  /\ Len(questions) = 7
  /\ currentQuestion = 1

\* The unused questions of a difficulty within 1..5 and of a category
unusedOfBoth(d, k) ==
  { q \in DOMAIN questions \ usedQuestionIds :
      d \in 1..5 /\ questions[q].difficulty = d /\ questions[q].category = k }
unusedOfDifficulty(d) ==
  { q \in DOMAIN questions \ usedQuestionIds :
      d \in 1..5 /\ questions[q].difficulty = d }
unusedOfCategory(k) ==
  { q \in DOMAIN questions \ usedQuestionIds : questions[q].category = k }

\* The pools a selection goes through, in order
fallbackPools(d, k) ==
  IF k = NoCategory
  THEN << unusedOfDifficulty(d), unusedOfDifficulty(d - 1),
          unusedOfDifficulty(d + 1), unusedOfDifficulty(d - 2),
          unusedOfDifficulty(d + 2), DOMAIN questions \ usedQuestionIds >>
  ELSE << unusedOfBoth(d, k), unusedOfBoth(d - 1, k), unusedOfBoth(d + 1, k),
          unusedOfBoth(d - 2, k), unusedOfBoth(d + 2, k), unusedOfCategory(k),
          DOMAIN questions \ usedQuestionIds >>

firstNonEmpty(pools) ==
  IF \A i \in DOMAIN pools : pools[i] = {} THEN {}
  ELSE pools[CHOOSE i \in DOMAIN pools :
               pools[i] # {} /\ \A j \in 1..(i - 1) : pools[j] = {}]

\* C19: a selection returns a question of the first non-empty pool among:
\* the unused questions of the asked difficulty and forced category; those of
\* difficulty d-1, d+1, d-2, d+2 (within 1..5) and the category; those of the
\* category whatever the difficulty; every unused question.  It returns
\* none only when every question is used.
C19_FallbackOrder ==
  [][\A d \in DifficultyLevels, k \in SelectCategories :
       Select(d, k) =>
         IF firstNonEmpty(fallbackPools(d, k)) = {}
         THEN /\ usedQuestionIds = DOMAIN questions
              /\ usedQuestionIds' = usedQuestionIds
              /\ currentQuestion' = currentQuestion
         ELSE /\ currentQuestion' \in firstNonEmpty(fallbackPools(d, k))
              /\ usedQuestionIds' = usedQuestionIds \cup {currentQuestion'}]_vars

\* C19 witness: the pool has been run through, ending with the two questions
\* of difficulty 3, and a further selection has returned none
C19_NoneAfterAllUsed ==
  /\ ghost.noQuestion
  /\ usedQuestionIds = 1..7
  /\ currentQuestion \in {3, 4}

\* The squares a move of steps squares from startPos goes over, in order
traversed(startPos, steps) == [i \in 1..steps |-> (startPos + i) % 25]

\* C20: a move of s >= 0 steps from square p in 0..24 puts the player on
\* (p + s) mod 25, and the gates it crosses are the gates among the squares
\* (p + i) mod 25 for i = 1..s, in the order of the move: the destination
\* counts, the start does not.
C20_MoveAndGates ==
  [][Fires("processMovement") =>
       LET p == players[1].boardPosition
           s == pendingMovements[1].steps
           crossed == SelectSeq(traversed(p, s), LAMBDA x : x \in {0, 5, 10, 15, 20})
       IN  /\ p \in 0..24 /\ s >= 0
           /\ players'[1].boardPosition = (p + s) % 25
           /\ IF crossed = <<>>
              THEN gatesPassedQueue' = <<>> /\ gamePhase' = "moving"
              ELSE gatesPassedQueue' = crossed /\ gamePhase' = "selectStar"]_vars

\* C20 witness: a move of more than a lap from square 19 has ended on gate
\* 20, crossed at the first step and again at the last
C20_LapEndingOnGate ==
  /\ gamePhase = "selectStar"
  /\ pendingMovements[1].steps = 26
  /\ players[1].boardPosition = 20
  /\ gatesPassedQueue = <<20, 0, 5, 10, 15, 20>>

\* C21: the previous gate of a square is the greatest gate strictly below
\* it, and gate 20 when there is none: square 0 gives 20, the square after a
\* gate g gives g, and a player standing on a gate g > 0 is sent to g - 5.
C21_PreviousGate ==
  [][(gamePhase = "twist" /\ activeTwist.id \in {1, 2} /\ activeTwist' = NoTwist) =>
       \A p \in DOMAIN players :
         LET pos == players[p].boardPosition
             new == players'[p].boardPosition
         IN  IF (activeTwist.id = 1) = (p = currentTurnIndex + 1)
             THEN /\ new \in {0, 5, 10, 15, 20}
                  /\ pos = 0 => new = 20
                  /\ pos > 0 => /\ new < pos
                                /\ \A g \in {0, 5, 10, 15, 20} : g < pos => g <= new
                  /\ (pos \in {5, 10, 15, 20}) => new = pos - 5
                  /\ (pos - 1 \in {0, 5, 10, 15, 20}) => new = pos - 1
             ELSE new = pos]_vars

\* C21 witness: others_back_gate has sent player 2 to gate 20 and left
\* player 1, who drew it, on square 7
C21_SentToLastGate ==
  /\ gamePhase = "twist" /\ activeTwist = NoTwist /\ usedTwistIds = {2}
  /\ players[1].boardPosition = 7
  /\ players[2].boardPosition = 20

\* C22: the board position of every player is an integer of 0..24 in every
\* reachable state, whatever question moves, bonus moves and movement twists
\* (move_back_gate with and without effectValue, others_back_gate,
\* random_teleport, everyone_moves, teleport_gate, swap_positions) are played.
C22_PositionOnBoard ==
  \A p \in DOMAIN players : players[p].boardPosition \in 0..24

\* C22 witness: move_back_gate of 3 squares has taken player 1 back over
\* square 0 and swap_positions has put player 2 there afterwards
C22_WrappedBackAndSwapped ==
  /\ {22, 5} \subseteq usedTwistIds
  /\ players[2].boardPosition = 22
  /\ players[1].boardPosition \in {0, 5}
  /\ gamePhase = "spinning"

\* C23: after a player has drawn double_next, the player's next correct
\* answer earns double steps in whichever later round it is given, after a
\* wrong answer or a twist turn as well, and only that one: a correct answer
\* of a player who has no doubling due is not doubled.
C23_NextCorrectDoubled ==
  [][(gamePhase = "countdown" /\ gamePhase' = "results") =>
       \A p \in DOMAIN players :
         answeredCorrectly(p, currentQuestion) =>
           roundSteps'[p].stepsEarned =
             (IF p = currentTurnIndex + 1
              THEN questions[currentQuestion].difficulty ELSE 1)
               * (IF p \in ghost.pendingDouble THEN 2 ELSE 1)]_vars

\* C23 witness of the failing case: the countdown runs on the correct answer
\* of a player whose doubling is due and who holds no double_next any more
C23_DueAndNotHeld ==
  /\ gamePhase = "countdown"
  /\ \E p \in ghost.pendingDouble :
       answeredCorrectly(p, currentQuestion) /\ ~holdsDoubleNext(p)

\* C24: after a player has chosen a category with category_master of value N,
\* the next N questions selected on the player's own turns are requested
\* with that category as forced category, however many players the game has.
C24_CategoryForced ==
  [][(Fires("spinComplete") /\ usedQuestionIds' # usedQuestionIds) =>
       \A m \in ghost.masterDue :
         (m.playerId = currentTurnIndex + 1 /\ m.left > 0) =>
           ghost'.asked.by = m.playerId /\ ghost'.asked.category = m.category]_vars

\* C24 witness of the failing case: on the first own turn after the choice a
\* question was requested without forced category, all N still to come
C24_OwnQuestionUnforced ==
  /\ gamePhase = "question"
  /\ \E m \in ghost.masterDue :
       /\ m.playerId = currentTurnIndex + 1 /\ m.left = 2
       /\ ghost.asked.by = m.playerId /\ ghost.asked.category = NoCategory

holdsShield(p) ==
  \E i \in DOMAIN modifiers :
    /\ modifiers[i].playerId = p /\ modifiers[i].type = "shield"
    /\ modifiers[i].turnsRemaining > 0

\* The modifiers of player p
modifiersOf(mods, p) == SelectSeq(mods, LAMBDA m : m.playerId = p)

\* C25: while a player holds an unexpired shield, negative twist effects do
\* not change the player's state: a negative card the player draws
\* (move_back_gate, random_teleport) and an adverse effect of another
\* player's card (others_back_gate, freeze_player, steal_star) leave the
\* player's position, score, stars and modifiers as they were.
C25_ShieldProtects ==
  [][(gamePhase \in {"twist", "twistChoice"} /\ activeTwist' = NoTwist
        /\ activeTwist.effectType \in {"move_back_gate", "random_teleport",
                                       "others_back_gate", "freeze_player",
                                       "steal_star"}) =>
       \A p \in DOMAIN players :
         (holdsShield(p)
            /\ (p = currentTurnIndex + 1) =
                 (activeTwist.effectType \in {"move_back_gate", "random_teleport"})) =>
           /\ players'[p] = players[p]
           /\ starsOf(stars', p) = starsOf(stars, p)
           /\ modifiersOf(modifiers', p) = modifiersOf(modifiers, p)]_vars

\* C25 witness of the failing case: others_back_gate has been played and the
\* holder of an unexpired shield stands on gate 20
C25_ShieldedSentBack ==
  /\ gamePhase = "twist" /\ activeTwist = NoTwist
  /\ 2 \in usedTwistIds /\ 1 \notin usedTwistIds /\ 4 \notin usedTwistIds
  /\ \E p \in DOMAIN players :
       holdsShield(p) /\ p # currentTurnIndex + 1 /\ players[p].boardPosition = 20

\* C26: after a player has confirmed extra_turn, the next turn advance keeps
\* the turn with that player and clears the extra-turn flag, so that the
\* player who drew the card, and no other, plays the one extra turn.
C26_ExtraTurnForDrawer ==
  [][(Fires("nextTurn") /\ extraTurnPending) =>
       (currentTurnIndex' = currentTurnIndex /\ ~extraTurnPending')]_vars

\* C26 witness of the failing case: the turn that follows the first
\* extra_turn card is another player's and the flag is still set
C26_TurnPassedWithFlagSet ==
  /\ gamePhase = "spinning" /\ extraTurnPending
  /\ usedTwistIds = {18} /\ currentTurnIndex = 1 /\ ghost.advances = 1

\* C27: after reverse_order of value N (3 when absent) has been confirmed,
\* exactly the next N turn advances that are not extra turns, the one that
\* ends the twist turn being the first, move the current-turn index by -1
\* modulo the number of players; every later turn advance moves it by +1,
\* the reversed flag being cleared.
C27_ReversedAdvances ==
  [][(Fires("nextTurn") /\ ghost'.ticks = ghost.ticks + 1 /\ 20 \in usedTwistIds) =>
       IF ghost.reverseDue > 0
       THEN currentTurnIndex' = (currentTurnIndex - 1 + Len(players)) % Len(players)
       ELSE /\ currentTurnIndex' = (currentTurnIndex + 1) % Len(players)
            /\ ~playOrderReversed']_vars

\* C27 witness of the failing case: the turn advance that ended the twist
\* turn of reverse_order has moved the turn forward
C27_TwistTurnEndedForward ==
  /\ gamePhase = "spinning" /\ playOrderReversed
  /\ usedTwistIds = {20} /\ ghost.reverseDue = 2
  /\ currentTurnIndex = 1 /\ ghost.advances = 1

\* A timer that will run handleNextTurn is pending
advancePending(ts) == \E i \in DOMAIN ts : ts[i].kind \in {"nextTurn", "peekEnd"}

\* A step that applies the choice of the open twist card
ChoiceApplied ==
  /\ gamePhase = "twistChoice" /\ activeTwist # NoTwist
  /\ (activeTwist' = NoTwist \/ peekedStarId' # peekedStarId)

\* The turn advance follows the choice: its timer is set, or it has been
\* done by the step that applied the choice
AdvanceFollows ==
  \/ gamePhase' = "twistChoice" /\ advancePending(timers')
  \/ gamePhase' = "spinning" /\ currentTurnIndex' # currentTurnIndex

\* C28 as stated: every twist choice, once applied, is followed by a turn
\* advance to the next player; none returns to spinning with the same
\* current player.
C28_ChoiceEndsTurn == [][ChoiceApplied => AdvanceFollows]_vars

\* C28 amended: every twist choice but difficulty_choice is followed by a
\* turn advance; difficulty_choice stores the chosen difficulty and returns
\* to spinning with the same current player and no turn advance set.
C28_ChoiceEndsTurnButDifficulty ==
  [][ChoiceApplied =>
       IF activeTwist.effectType = "difficulty_choice"
       THEN /\ gamePhase' = "spinning" /\ currentTurnIndex' = currentTurnIndex
            /\ chosenDifficulty' \in DifficultyLevels
            /\ ~advancePending(timers')
       ELSE AdvanceFollows]_vars

\* C28 witness: a difficulty has been chosen and the chooser is to spin again
C28_RespinAfterDifficulty ==
  /\ gamePhase = "spinning" /\ chosenDifficulty # NoDifficulty
  /\ ghost.overrideBy = currentTurnIndex + 1 /\ ghost.advances = 0
  /\ ~advancePending(timers) /\ activeTwist = NoTwist

C30_OverrideOnOwnTurn ==
  [][(Fires("spinComplete") /\ chosenDifficulty # NoDifficulty
        /\ usedTwistIds' = usedTwistIds) =>
       ghost.overrideBy = currentTurnIndex + 1]_vars

\* C30 witness of the failing case: a question of another player's turn has
\* been requested with the difficulty the chooser has chosen
C30_AskedOnOtherTurn ==
  /\ gamePhase = "question" /\ chosenDifficulty = NoDifficulty
  /\ ghost.overrideBy \notin {NoPlayer, currentTurnIndex + 1}
  /\ ghost.asked.by = currentTurnIndex + 1
  /\ ghost.asked.difficulty \in DifficultyLevels \ {3}

\* C31: in the question phase the answer record holds at most one answer per
\* player, and the phase changes to countdown only in a state where every
\* player of the roster has an answer on record.
C31_OneAnswerEachThenCountdown ==
  [][/\ gamePhase' = "question" =>
          \A i, j \in DOMAIN playerAnswers' :
            playerAnswers'[i].playerId = playerAnswers'[j].playerId => i = j
     /\ (gamePhase = "question" /\ gamePhase' = "countdown") =>
          \A p \in DOMAIN players :
            \E i \in DOMAIN playerAnswers : playerAnswers[i].playerId = p]_vars

\* C31 witness: the countdown of a round of three players has begun
C31_CountdownOfThree ==
  /\ gamePhase = "countdown" /\ Len(players) = 3
  /\ {playerAnswers[i].playerId : i \in DOMAIN playerAnswers} = {1, 2, 3}

\* C32: each entry of the movement queue is applied exactly once and one at
\* a time: when the moving phase ends, every queued player stands on
\* (position at queue creation + stepsEarned) mod 25 and every other player
\* where it stood, and an entry is applied only in the moving phase, never
\* in selectStar or revealingStar.
C32_QueueAppliedOnce ==
  [][/\ (gamePhase = "moving" /\ gamePhase' \notin {"moving", "selectStar"}
           /\ pendingMovements # <<>>) =>
          \A p \in DOMAIN players :
            players[p].boardPosition =
              (ghost.origin[p]
                 + SumSeq([i \in DOMAIN pendingMovements |->
                             IF pendingMovements[i].playerId = p
                             THEN pendingMovements[i].steps ELSE 0])) % TOTAL_STEPS
     /\ (\E p \in DOMAIN players : players'[p].boardPosition # players[p].boardPosition)
          /\ Fires("processMovement") =>
            gamePhase = "moving"]_vars

\* C32 witness of the failing case: the phase has been set to twist in the
\* middle of the moving phase, the second entry of the queue not applied
C32_MovingAbandoned ==
  /\ gamePhase = "twist" /\ Len(pendingMovements) = 2
  /\ currentMovingPlayerIndex = 1
  /\ players[pendingMovements[2].playerId].boardPosition
       = ghost.origin[pendingMovements[2].playerId]
  /\ players[pendingMovements[1].playerId].boardPosition
       # ghost.origin[pendingMovements[1].playerId]

\* The pending timers set by answers to the bonus question
bonusTimers(ts) ==
  Cardinality({i \in DOMAIN ts : ts[i].kind \in {"bonusNextTurn", "bonusSelectStar"}})

\* C33: a correct answer to a bonus question moves the acting player forward
\* by exactly effectValue steps (5 when absent), once: an answer event in the
\* 1.5 s before the phase is left moves nobody and sets no second timer of a
\* turn advance; no other player's position, score or stars change.
C33_BonusAnsweredOnce ==
  [][gamePhase = "twistBonusQ" =>
       /\ bonusTimers(timers) >= 1 =>
            players' = players /\ bonusTimers(timers') <= bonusTimers(timers)
       /\ \A p \in DOMAIN players :
            IF p = currentTurnIndex + 1
            THEN players'[p] \in
                   {players[p],
                    [players[p] EXCEPT !.boardPosition =
                       (@ + OrDefault(activeTwist.effectValue, 5)) % TOTAL_STEPS]}
            ELSE players'[p] = players[p]
       /\ stars' = stars]_vars

\* C33 witness of the failing case: in the first turn of the game the player
\* who started on square 0 stands on square 10 with two timers pending
C33_MovedTwice ==
  /\ gamePhase = "twistBonusQ" /\ turnsStarted = 1 /\ currentTurnIndex = 0
  /\ bonusTimers(timers) = 2
  /\ players[1].boardPosition = (2 * OrDefault(activeTwist.effectValue, 5)) % TOTAL_STEPS

\* The number of gates among the squares a move goes over
gatesCrossed(from, steps) ==
  Cardinality({i \in 1..steps : (from + i) % TOTAL_STEPS \in BOARD_GATE_POSITIONS})

\* The stars due to the latest queued move: min(k, u)
starsDue == Min({gatesCrossed(ghost.move.from, ghost.move.steps), ghost.move.unearned})

\* C34: for one queued move that crosses k gates while u stars are unearned
\* the mover is awarded exactly min(k, u) stars, one selectStar/revealingStar
\* round per star; each award sets the chosen star earned with the mover as
\* owner, adds its value to the mover's score and 1 to starsCollected; only
\* after the last award does the movement queue resume or the game finish.
C34_StarPerGate ==
  [][/\ (Fires("processMovement") /\ gamePhase = "moving"
           /\ currentMovingPlayerIndex < Len(pendingMovements)) =>
          LET m == pendingMovements[currentMovingPlayerIndex + 1]
              k == gatesCrossed(players[m.playerId].boardPosition, m.steps)
          IN  IF k > 0 /\ availableStars(stars) # {}
              THEN gamePhase' = "selectStar" /\ selectingStarPlayer' = m.playerId
              ELSE gamePhase' = "moving" /\ stars' = stars
     /\ (gamePhase = "selectStar" /\ gamePhase' # "selectStar"
           /\ ghost.awaitingStar # NoPlayer) =>
          /\ gamePhase' = "revealingStar" /\ ~stars[revealingStar'.id].isEarned
          /\ stars' = stars /\ players' = players
     /\ (gamePhase = "revealingStar" /\ gamePhase' # "revealingStar"
           /\ ghost.awaitingStar # NoPlayer) =>
          LET p == selectingStarPlayer
              k == revealingStar.id
              got == players'[p].starsCollected - ghost.move.collected
          IN  /\ p = ghost.move.player
              /\ ~stars[k].isEarned
              /\ stars' = [stars EXCEPT ![k].isEarned = TRUE, ![k].earnedByPlayerId = p]
              /\ players' = [players EXCEPT ![p].score = @ + stars[k].pointValue,
                                            ![p].starsCollected = @ + 1]
              /\ IF got < starsDue
                 THEN gamePhase' = "selectStar" /\ selectingStarPlayer' = p
                 ELSE /\ got = starsDue
                      /\ gamePhase' = IF availableStars(stars') = {}
                                      THEN "finished" ELSE "moving"]_vars

\* C34 witness of the failing case: the star selection of a queued move
\* over a gate has been replaced by a twist card, no star awarded
C34_SelectionLost ==
  /\ gamePhase = "twist" /\ ghost.awaitingStar # NoPlayer
  /\ selectingStarPlayer = ghost.awaitingStar
  /\ ghost.move.player = ghost.awaitingStar /\ starsDue >= 1
  /\ players[ghost.move.player].starsCollected = ghost.move.collected
\* C35: a star's earned flag never goes back from true to false; an earned
\* star's owner changes only by steal_star and its value only by
\* upgrade_zero_star (from 0 to 250, on a star of the acting player); every
\* other step leaves the earned stars as they are, and a star that is earned
\* is never awarded again.
C35_EarnedStarsKept ==
  [][/\ \A k \in DOMAIN stars :
          stars[k].isEarned =>
            /\ stars'[k].isEarned
            /\ stars'[k].earnedByPlayerId # stars[k].earnedByPlayerId =>
                 /\ activeTwist.effectType = "steal_star"
                 /\ stars'[k].earnedByPlayerId = currentTurnIndex + 1
                 /\ stars'[k].pointValue = stars[k].pointValue
            /\ stars'[k].pointValue # stars[k].pointValue =>
                 /\ activeTwist.effectType = "upgrade_zero_star"
                 /\ stars[k].pointValue = 0 /\ stars'[k].pointValue = 250
                 /\ stars[k].earnedByPlayerId = currentTurnIndex + 1
                 /\ stars'[k].earnedByPlayerId = stars[k].earnedByPlayerId
     /\ \A p \in DOMAIN players :
          players'[p].starsCollected > players[p].starsCollected =>
            \E k \in DOMAIN stars :
              /\ stars'[k].earnedByPlayerId = p
              /\ stars[k].earnedByPlayerId # p
              /\ stars[k].isEarned => activeTwist.effectType = "steal_star"]_vars

\* C35 witness: free_star, steal_star and upgrade_zero_star have been played
\* and the 0-point star has become a second star of 250 points
C35_StolenAndUpgraded ==
  /\ {7, 8, 9} \subseteq usedTwistIds
  /\ Cardinality({k \in DOMAIN stars : stars[k].pointValue = 250}) = 2
  /\ \E k \in DOMAIN stars :
       /\ stars[k].isEarned /\ stars[k].pointValue = 250
       /\ \E p \in DOMAIN players :
            p # stars[k].earnedByPlayerId /\ starsOf(stars, p) # {}

\* C36: the confirmation of an everyone_moves card puts every player on
\* (position + effectValue) mod 25, changes nothing else of the players and
\* nothing of the stars, leaves the phase out of the star selection with the
\* turn advance due, and the turn advance that follows opens the next spin
\* without a star having been awarded, also when a player has crossed a gate
\* while stars are unearned.
C36_EveryoneMovesNoStar ==
  [][/\ (/\ gamePhase = "twist" /\ activeTwist # NoTwist
         /\ activeTwist.effectType = "everyone_moves"
         /\ ghost'.confirms = ghost.confirms + 1) =>
          /\ DOMAIN players' = DOMAIN players
          /\ \A p \in DOMAIN players :
               players'[p] =
                 [players[p] EXCEPT !.boardPosition =
                    (@ + (IF activeTwist.effectValue = 0 THEN 2
                          ELSE activeTwist.effectValue)) % 25]
          /\ stars' = stars
          /\ gamePhase' = "twist" /\ activeTwist' = NoTwist
          /\ selectingStarPlayer' = selectingStarPlayer
          /\ revealingStar' = revealingStar
          /\ \E i \in DOMAIN timers' : timers'[i].kind = "nextTurn"
     /\ (/\ gamePhase = "twist" /\ activeTwist = NoTwist
         /\ 6 \in usedTwistIds /\ Fires("nextTurn")) =>
          /\ gamePhase' = "spinning"
          /\ stars' = stars
          /\ \A p \in DOMAIN players :
               players'[p].starsCollected = players[p].starsCollected]_vars

\* C36 witness: everyone_moves has been confirmed, a player stands on the
\* gate just crossed or up to one square behind it, stars are unearned and
\* the turn has advanced to the next spin
C36_CrossedGateNoSelection ==
  /\ gamePhase = "spinning" /\ usedTwistIds = {6} /\ ghost.confirms = 1
  /\ \E p \in DOMAIN players : players[p].boardPosition \in {5, 6, 10, 11}
  /\ \E k \in DOMAIN stars : ~stars[k].isEarned


\* q is the queue of the players that rs gives steps to, in roster order
queueOfEarners(q, rs) ==
  /\ \A i, j \in DOMAIN q : i < j => q[i].playerId < q[j].playerId
  /\ {q[i].playerId : i \in DOMAIN q} = {p \in DOMAIN rs : rs[p].stepsEarned > 0}
  /\ \A i \in DOMAIN q : q[i].steps = rs[q[i].playerId].stepsEarned

\* C37: the results of a round come with the movement queue of exactly the
\* players with stepsEarned > 0, in roster order; proceeding from the results
\* keeps that queue and opens 'moving' at its first entry when it is not
\* empty, and advances the turn to the next spin, without 'moving', when no
\* player earned steps.
C37_QueueOfEarners ==
  [][/\ (gamePhase # "results" /\ gamePhase' = "results") =>
          queueOfEarners(pendingMovements', roundSteps')
     /\ (gamePhase = "results" /\ gamePhase' \in {"moving", "spinning"}) =>
          IF \E p \in DOMAIN roundSteps : roundSteps[p].stepsEarned > 0
          THEN /\ gamePhase' = "moving"
               /\ pendingMovements' = pendingMovements
               /\ queueOfEarners(pendingMovements, roundSteps)
               /\ currentMovingPlayerIndex' = 0
               /\ players' = players
          ELSE /\ gamePhase' = "spinning"
               /\ ghost'.advances = ghost.advances + 1
               /\ pendingMovements' = <<>>
               /\ players' = players]_vars

\* C37 witness: in a round of three players the first answered wrong and the
\* two others right, and 'moving' has opened with the queue of players 2, 3
C37_QueueSkipsFirst ==
  /\ gamePhase = "moving" /\ currentMovingPlayerIndex = 0
  /\ Len(players) = 3 /\ Len(pendingMovements) = 2
  /\ pendingMovements[1].playerId = 2 /\ pendingMovements[2].playerId = 3
  /\ roundSteps[1].stepsEarned = 0

\* C37 witness of the empty queue: nobody earned steps in the first round
\* and the turn has advanced to the second spin
C37_NobodyMoves ==
  /\ gamePhase = "spinning" /\ ghost.advances = 1 /\ usedTwistIds = {}
  /\ \A p \in DOMAIN players : players[p].boardPosition = (p - 1) * 5


\* C38: the frozen-skip loop of a turn advance ends after at most playerCount
\* iterations, also when every player is frozen, and the advance leaves a
\* current-turn index of 0..playerCount-1 and the phase 'spinning'.
C38_SkipLoopBounded ==
  [][Fires("nextTurn") =>
       /\ ghost'.skips \in 0..Len(players)
       /\ currentTurnIndex' \in 0..(Len(players) - 1)
       /\ gamePhase' = "spinning"]_vars

\* C38 witness: a turn advance has run the loop once for each of three
\* frozen players, in reversed order
C38_AllFrozenSkipped ==
  /\ gamePhase = "spinning" /\ Len(players) = 3 /\ ghost.skips = 3
  /\ playOrderReversed /\ ghost.advances = 1


\* C39: in every reachable state the reversed-order flag is true exactly
\* when the reversed-turns counter is greater than 0, and the counter is
\* never below 0.
C39_FlagIffCounter ==
  /\ reverseTurnsRemaining >= 0
  /\ playOrderReversed <=> reverseTurnsRemaining > 0


\* C39 witness of the failing case: the reversed order has run out and a
\* second turn advance of the same render has taken the counter below 0
C39_CounterBelowZero ==
  /\ gamePhase = "spinning" /\ ~playOrderReversed
  /\ reverseTurnsRemaining < 0 /\ 20 \in usedTwistIds

\* The reversed order is left on with nothing to count down
C39_ReversedForGood ==
  playOrderReversed /\ reverseTurnsRemaining = 0 /\ gamePhase = "spinning"


\* C40: on the finished screen the declared winner has the highest score of
\* all players, and of the players who have that score it is the first in
\* roster order.
C40_WinnerFirstOfBest ==
  (gamePhase = "finished" \/ \A k \in DOMAIN stars : stars[k].isEarned) =>
    /\ winner(Cur) \in DOMAIN players
    /\ \A p \in DOMAIN players :
         /\ players[p].score <= players[winner(Cur)].score
         /\ players[p].score = players[winner(Cur)].score => winner(Cur) <= p

\* C40 witness: the game has finished with two players tied at the top
C40_FinishedInTie ==
  /\ gamePhase = "finished" \/ \A k \in DOMAIN stars : stars[k].isEarned
  /\ \E p, q \in DOMAIN players :
       /\ p # q /\ players[p].score = players[q].score
       /\ \A r \in DOMAIN players : players[r].score <= players[p].score

=============================================================================
